---- MODULE Spec2Model ----
(***************************************************************************)
(* Lightningbeam: the scene graph (Group -> Layer -> frame ->              *)
(* framewrapper), the tool modes, the stage and timeline event handlers,   *)
(* the undo/redo history and the file operations of lightningbeam.py and   *)
(* svlgui.py, as a state machine.                                          *)
(*                                                                         *)
(* Python objects live in heaps (sequences indexed by identity):           *)
(*   grp  Group objects        ly  Layer objects      fr  frame objects    *)
(*   wr   framewrapper objects ob  Shape / Text / TemporaryGroup objects   *)
(* A reference is the index into its heap; 0 is None.  References kept in  *)
(* edit records are tagged (<<"wr", 3>>) because Python compares them by   *)
(* identity across classes.                                                *)
(*                                                                         *)
(* The platform is SYSTEM == "osx" (PyGUI), the one lightningbeam.py runs *)
(* on without change: only MainWindowOSX has the timelinebox it wires up. *)
(*                                                                         *)
(* One GUI event is one action.  A mouse gesture is press, at most one     *)
(* drag event, release.  Key presses and the keyboard shortcuts of Undo,   *)
(* Redo and Paste (lightningbeam.py:1028-1032) can arrive while the button *)
(* is held; toolbar, colour, timeline and File menu events need the mouse  *)
(* and arrive between gestures.  A release that starts a rubber band       *)
(* selection (svlgui.py:2627) is an event of its own, BandUp.  An          *)
(* exception raised by a handler ends the handler; the assignments made    *)
(* before the raise stay, and err names the exception.                     *)
(***************************************************************************)
EXTENDS Integers, Sequences, FiniteSets, TLC

\* ---------------------------------------------------------------- bounds
MaxUndo   == 3      \* a gesture or key that records starts only below this
MaxObjs   == 2      \* scene objects (Shape, Text) ever created
MaxKeys   == 2      \* keys typed into Text objects
EditSteps == 7      \* events of one run of EditSpec
GestureSteps == 13  \* events of one run of GestureSpec
KeySteps  == 6      \* events of one run of KeySpec
TimelineSteps == 7  \* events of one run of TimelineSpec
FileSteps == 10     \* events of one run of FileSpec
SelectSteps == 8    \* events of one run of SelectSpec
FrameSteps == 8     \* events of one run of FrameSpec
SimplifySteps == 2  \* calls of one run of SimplifySpec
MaxPoints == 4      \* points of a polyline
MaxIter == 2        \* iterations of simplify_shape
HitSteps == 1       \* calls of one run of HitSpec
MaxSide == 3        \* longest side of a box
MaxIndex  == 3      \* largest timeline index clicked or released at
MaxFrames == 3      \* frame objects ever created per document
MaxLayers == 2      \* layers of a group
MaxSymbols == 1     \* symbols ever created
MaxDocs   == 3      \* groups ever created (documents made or opened)

\* ------------------------------------------------------- program constants
FontHeight == 16    \* Font(FONT,16).height, svlgui.py:1751
CharWidth  == 8     \* font.width(text) per character
HandleSize == 5     \* half width of a scale handle, svlgui.py:2583
BandMin    == 4     \* smallest rubber band, svlgui.py:2627
MaxInt     == 100000 \* stands for sys.maxint in Shape.hitTest, svlgui.py:1680
FrameWidth == 16    \* pixels per timeline cell, lightningbeam.py:92

\* the ten tool modes of svlgui.py:22-35
Modes == {" ", "l", "s", "t", "r", "e", "c", "p", "n", "b"}

\* ------------------------------------------------------------ input sets
\* stage points the mouse is pressed, dragged and released at
StagePts == { <<100, 100>>, <<150, 120>>, <<300, 300>> }
\* keys delivered to the stage
Keys == Modes \cup {"a", "enter", "backspace", "delete", "left_arrow", "escape"}
\* colours of the colour picker (Color.val); 1 is the initial FILLCOLOR
Colors == {1, 2}
\* the text on the clipboard
ClipText == <<"h", "i">>

VARIABLES
  MODE,           \* svlgui.MODE
  EDITING,        \* svlgui.EDITING
  SCALING,        \* svlgui.SCALING
  FILLCOLOR,      \* svlgui.FILLCOLOR (its val)
  root,           \* lightningbeam.root: reference into grp
  grp, ly, fr, wr, ob,      \* the heaps
  undo_stack, redo_stack,
  Library,        \* svlgui.Library
  stage,          \* MainWindow.stage.objs: sequence of group references
  svroot,         \* svlgui.root
  tlroot,         \* MainWindow.timelinebox.root
  SECURETEMPDIR,  \* svlgui.SECURETEMPDIR: a directory number
  dirs,           \* the directories that exist on disk
  FILE,           \* svlgui.FILE.name: "temp" (under TEMPDIR) or "user"
  archive,        \* the (root, Library) pair last written by a save
  mouse,          \* "up", "stage" (pressed on the stage), "stagedrag", "timeline"
  err,            \* exception raised by the last handler, or "none"
  ev,             \* the last event delivered (observation only)
  steps,          \* events the run may still handle (bounds the runs explored)
  typed,          \* keys delivered to Text objects so far (bounds the typing)
  snap            \* the state before the run of undos just made (history)

vars == << MODE, EDITING, SCALING, FILLCOLOR, root, grp, ly, fr, wr, ob,
           undo_stack, redo_stack, Library, stage, svroot, tlroot,
           SECURETEMPDIR, dirs, FILE, archive, mouse, err, ev, steps, typed, snap >>

NoSnap == [ undos |-> 0 ]

\* ------------------------------------------------------ sequence helpers
Last(s)      == s[Len(s)]
Front(s)     == SubSeq(s, 1, Len(s) - 1)
RemoveAt(s, i) == SubSeq(s, 1, i - 1) \o SubSeq(s, i + 1, Len(s))
InsertAt(s, i, v) ==      \* list.insert(i-1, v): beyond the end it appends
  IF i > Len(s) THEN Append(s, v)
  ELSE SubSeq(s, 1, i - 1) \o <<v>> \o SubSeq(s, i, Len(s))
Range(s)     == { s[i] : i \in 1..Len(s) }
IndexOf(s, v) == IF \E i \in 1..Len(s) : s[i] = v
                 THEN CHOOSE i \in 1..Len(s) : s[i] = v /\ \A j \in 1..(i-1) : s[j] # v
                 ELSE 0
Abs(n)       == IF n < 0 THEN -n ELSE n
Min2(a, b)   == IF a < b THEN a ELSE b
SetMin(S)    == CHOOSE m \in S : \A n \in S : m <= n
SetMax(S)    == CHOOSE m \in S : \A n \in S : m >= n

\* ------------------------------------------------------------- rationals
\* xscale and yscale are floats in the program; here exact fractions <<n, d>>
RECURSIVE GCD(_, _)
GCD(a, b) == IF b = 0 THEN a ELSE GCD(b, a % b)
Rat(n, d) ==
  LET g == GCD(Abs(n), Abs(d))
      s == IF d < 0 THEN -1 ELSE 1
  IN  << (s * n) \div g, (s * d) \div g >>
One == << 1, 1 >>
RatDiffers(p, q) == p[1] * q[2] # q[1] * p[2]      \* abs(p-q) > 0

\* ------------------------------------------------------------ edit, maybe
\* class edit, and class maybe with its inner edit flattened
edit(type, obj, from_attrs, to_attrs) ==
  [ cls |-> "edit", type |-> type, obj |-> obj,
    from_attrs |-> from_attrs, to_attrs |-> to_attrs ]
maybe(type, obj, from_attrs) ==
  [ cls |-> "maybe", type |-> type, obj |-> obj,
    from_attrs |-> from_attrs, to_attrs |-> from_attrs ]
complete(m, to_attrs) ==
  [ cls |-> "edit", type |-> m.type, obj |-> m.obj,
    from_attrs |-> m.from_attrs, to_attrs |-> to_attrs ]
clear(arr) == << >>
Has(attrs, ks) == ks \subseteq DOMAIN attrs

WrRef(w)  == << "wr", w >>
ObRef(o)  == << "ob", o >>
GrpRef(g) == << "grp", g >>

\* ------------------------------------------------------- program state
\* The program state as one record, so that a handler is an operator from
\* state to state and handlers compose as the calls in the source do.
S == [ MODE |-> MODE, EDITING |-> EDITING, SCALING |-> SCALING,
       FILLCOLOR |-> FILLCOLOR, root |-> root, grp |-> grp, ly |-> ly,
       fr |-> fr, wr |-> wr, ob |-> ob, undo_stack |-> undo_stack,
       redo_stack |-> redo_stack, Library |-> Library, stage |-> stage,
       svroot |-> svroot, tlroot |-> tlroot, SECURETEMPDIR |-> SECURETEMPDIR,
       dirs |-> dirs, FILE |-> FILE, archive |-> archive, err |-> "none" ]
Apply(s) ==
  /\ steps > 0
  /\ steps' = steps - 1
  /\ MODE' = s.MODE /\ EDITING' = s.EDITING /\ SCALING' = s.SCALING
  /\ FILLCOLOR' = s.FILLCOLOR /\ root' = s.root /\ grp' = s.grp /\ ly' = s.ly
  /\ fr' = s.fr /\ wr' = s.wr /\ ob' = s.ob /\ undo_stack' = s.undo_stack
  /\ redo_stack' = s.redo_stack /\ Library' = s.Library /\ stage' = s.stage
  /\ svroot' = s.svroot /\ tlroot' = s.tlroot
  /\ SECURETEMPDIR' = s.SECURETEMPDIR /\ dirs' = s.dirs /\ FILE' = s.FILE
  /\ archive' = s.archive /\ err' = s.err
Raise(s, e) == [ s EXCEPT !.err = e ]

\* --------------------------------------------------------------- geometry
\* shapedata keeps, of every segment ["M"|"L"|"C", x, y, ...], the pair
\* <<x, y>> that hitTest and minx..maxy read (i[1], i[2]).
\* box(), lightningbeam.py:533
BoxData(width, height) ==
  << <<0, 0>>, <<width, 0>>, <<width, height>>, <<0, height>>, <<0, 0>> >>
\* ellipse(), lightningbeam.py:544 and onMouseDragGroup, lightningbeam.py:276
EllipseData(width, height) ==
  << << width \div 2, 0 >>, << (4 * width) \div 5, 0 >>,
     << width, (4 * height) \div 5 >>, << width \div 5, height >>,
     << 0, height \div 5 >> >>
\* shape(), lightningbeam.py:550
ShapeData == << <<0, 0>> >>

\* Shape.hitTest: ray casting against the segment towards [x, sys.maxint]
ccw(a, b, c) == (c[2] - a[2]) * (b[1] - a[1]) > (b[2] - a[2]) * (c[1] - a[1])
\* a ray test that forgets on which side of the ray the segment ends lie
intersectAnyHeight(a, b, c, d) ==
  ccw(a, c, d) # ccw(b, c, d)
intersect(a, b, c, d) ==
  /\ ccw(a, c, d) # ccw(b, c, d)
  /\ ccw(a, b, c) # ccw(a, b, d)
ShapeHitTest(sd, x, y) ==
  LET prev(i) == IF i = 1 THEN sd[Len(sd)] ELSE sd[i - 1]      \* shapedata[i-1]
      crossing == { i \in 1..Len(sd) :
                      intersect(prev(i), sd[i], <<x, y>>, <<x, MaxInt>>) }
  IN  Cardinality(crossing) % 2 = 1

\* Text.width, Text.hitTest (which first resets self.height)
TextWidth(s, o)  == CharWidth * Len(s.ob[o].text)
TextHitTest(s, o, x, y) ==
  /\ 0 < x /\ x < TextWidth(s, o)
  /\ -FontHeight < y /\ y < 0

\* minx, miny, maxx, maxy of a Shape or Text
Xs(s, o) == { s.ob[o].shapedata[i][1] : i \in 1..Len(s.ob[o].shapedata) }
Ys(s, o) == { s.ob[o].shapedata[i][2] : i \in 1..Len(s.ob[o].shapedata) }
LeafMinX(s, o) == IF s.ob[o].type = "Text" THEN 0 ELSE SetMin(Xs(s, o))
LeafMinY(s, o) == IF s.ob[o].type = "Text" THEN -(s.ob[o].height) ELSE SetMin(Ys(s, o))
LeafMaxX(s, o) == IF s.ob[o].type = "Text" THEN TextWidth(s, o) ELSE SetMax(Xs(s, o))
LeafMaxY(s, o) == IF s.ob[o].type = "Text" THEN 0 ELSE SetMax(Ys(s, o))
\* a scene object that is a group: a TemporaryGroup or a symbol
IsGroup(s, o) == s.ob[o].type \in {"TemporaryGroup", "Group"}
\* the wrappers a group that is a scene object holds: the objs of frames[0]
\* of its one layer, which is also its current frame
Inner(s, o) ==
  s.fr[s.ly[s.grp[s.ob[o].grp].layers[1]].frames[1]].objs
\* minx .. maxy of the wrapped object; of a group they are Group.getminx ..
\* getmaxy over Layer.getminx .. getmaxy, svlgui.py:2251-2258 and 2455-2462
RECURSIVE ObjMinX(_, _)
ObjMinX(s, o) ==
  IF IsGroup(s, o)
  THEN SetMin({ ObjMinX(s, s.wr[w].obj) + s.wr[w].x : w \in Range(Inner(s, o)) })
  ELSE LeafMinX(s, o)
RECURSIVE ObjMinY(_, _)
ObjMinY(s, o) ==
  IF IsGroup(s, o)
  THEN SetMin({ ObjMinY(s, s.wr[w].obj) + s.wr[w].y : w \in Range(Inner(s, o)) })
  ELSE LeafMinY(s, o)
RECURSIVE ObjMaxX(_, _)
ObjMaxX(s, o) ==
  IF IsGroup(s, o)
  THEN SetMax({ ObjMaxX(s, s.wr[w].obj) + s.wr[w].x : w \in Range(Inner(s, o)) })
  ELSE LeafMaxX(s, o)
RECURSIVE ObjMaxY(_, _)
ObjMaxY(s, o) ==
  IF IsGroup(s, o)
  THEN SetMax({ ObjMaxY(s, s.wr[w].obj) + s.wr[w].y : w \in Range(Inner(s, o)) })
  ELSE LeafMaxY(s, o)
\* framewrapper.minx .. maxy, svlgui.py:2072-2079
WrMinX(s, w) == ObjMinX(s, s.wr[w].obj) + s.wr[w].x
WrMinY(s, w) == ObjMinY(s, s.wr[w].obj) + s.wr[w].y
WrMaxX(s, w) == ObjMaxX(s, s.wr[w].obj)
WrMaxY(s, w) == ObjMaxY(s, s.wr[w].obj)

\* framewrapper.hitTest, svlgui.py:2086-2092, with transformcoords; of a
\* group it is Group.hitTest, svlgui.py:2686-2691
RECURSIVE WrHitTest(_, _, _, _)
WrHitTest(s, w, x, y) ==
  LET o == s.wr[w].obj
  IN  CASE IsGroup(s, o) ->
             \E j \in Range(Inner(s, o)) :
                WrHitTest(s, j, x - s.wr[w].x, y - s.wr[w].y)
        [] s.ob[o].type = "Text" ->
             TextHitTest(s, o, x - s.wr[w].x, y - s.wr[w].y)
        [] OTHER ->
             ShapeHitTest(s.ob[o].shapedata, x - s.wr[w].x, y - s.wr[w].y)
\* the scene objects whose hitTest a hitTest of the wrapper w runs: of a
\* group, those of its wrappers up to the first that is hit
RECURSIVE AskedBy(_, _, _, _)
AskedBy(s, w, x, y) ==
  LET o   == s.wr[w].obj
      in  == Inner(s, o)
      hit == { j \in 1..Len(in) : WrHitTest(s, in[j], x - s.wr[w].x, y - s.wr[w].y) }
      to  == IF hit = {} THEN Len(in) ELSE SetMin(hit)
  IN  IF IsGroup(s, o)
      THEN UNION { AskedBy(s, in[j], x - s.wr[w].x, y - s.wr[w].y) : j \in 1..to }
      ELSE { o }

\* the four scale handles tested by Group._onMouseDown, svlgui.py:2583-2590
Near(v, c) == c - HandleSize < v /\ v < c + HandleSize
OnHandle(s, w, x, y) ==
  \/ Near(x, WrMinX(s, w)) /\ Near(y, WrMinY(s, w))
  \/ Near(x, WrMinX(s, w)) /\ Near(y, WrMinY(s, w) + WrMaxY(s, w))
  \/ Near(x, WrMinX(s, w) + WrMaxX(s, w)) /\ Near(y, WrMinY(s, w) + WrMaxY(s, w))
  \/ Near(x, WrMinX(s, w) + WrMaxX(s, w)) /\ Near(y, WrMinY(s, w))

\* ----------------------------------------------------------- scene graph
\* Group.activelayer (getal); _al is 0-based
ActiveLayer(s, g) == s.grp[g].layers[s.grp[g].al + 1]
\* frames[i] of a layer: a frame reference, 0 for None, -1 for IndexError
FrameAt(s, l, i) ==
  IF i >= 0 /\ i < Len(s.ly[l].frames) THEN s.ly[l].frames[i + 1] ELSE -1
\* frames[currentframe] of a layer
CurFrame(s, l) == FrameAt(s, l, s.ly[l].currentframe)
\* frames[currentframe] of the active layer of a group
GroupFrame(s, g) == CurFrame(s, ActiveLayer(s, g))
\* the exception frames[i].attr raises when frames[i] is no frame
FrameErr(f) == IF f = 0 THEN "AttributeError" ELSE "IndexError"
\* Group.descendItem: currentselect is None, a framewrapper or a
\* TemporaryGroup, whose class is never "Group", so it returns the group
\* itself, svlgui.py:2557-2561
descendItem(s, g) == g
\* Layer is an old-style class (svlgui.py:2247), so its property
\* currentselect (svlgui.py:2271-2280) is only read: an assignment
\* layer.currentselect = v stores v in the instance, and from then on every
\* read returns the stored value.  shadow says that this has happened.
\* A selection is 0 for None, w for the wrapper w and -o for the scene
\* object o itself.
\* the exception a read of layer.currentselect raises, "none" if none
SelErr(s, l) ==
  IF s.ly[l].shadow \/ CurFrame(s, l) > 0 THEN "none" ELSE FrameErr(CurFrame(s, l))
\* the value a read of layer.currentselect returns; needs SelErr = "none"
Sel(s, l) ==
  IF s.ly[l].shadow THEN s.ly[l].currentselect ELSE s.fr[CurFrame(s, l)].currentselect
\* layer.currentselect = v
SetSel(s, l, v) == [ s EXCEPT !.ly[l].shadow = TRUE, !.ly[l].currentselect = v ]
\* the selection of the active layer of a group
CurSel(s, g) == Sel(s, ActiveLayer(s, g))
\* the exception root.descendItem() raises when it reads the selection of
\* the active layer, svlgui.py:2558, "none" if none
DescendErr(s, g) == SelErr(s, ActiveLayer(s, g))
\* Layer.currentFrame()
CurObjs(s, g) == s.fr[GroupFrame(s, g)].objs

\* a new framewrapper, svlgui.py:2029-2043
framewrapper(o, x, y, rot, scalex, scaley, filled, fillcolor, parent) ==
  [ obj |-> o, x |-> x, y |-> y, rot |-> rot, xscale |-> scalex, yscale |-> scaley,
    filled |-> filled, fillcolor |-> fillcolor,
    inited |-> FALSE, initx |-> 0, inity |-> 0, parent |-> parent ]
\* Shape.__init__ and Text.__init__; filled/fillcolor are the object's own
NewShape(sd, x, y, fillcolor, filled) ==
  [ type |-> "Shape", shapedata |-> sd, text |-> << >>, cursorpos |-> 0,
    height |-> 0, x |-> x, y |-> y, initx |-> 0, inity |-> 0,
    filled |-> filled, fillcolor |-> fillcolor, grp |-> 0 ]
NewText(t, x, y) ==
  [ type |-> "Text", shapedata |-> << >>, text |-> t, cursorpos |-> Len(t),
    height |-> FontHeight, x |-> x, y |-> y, initx |-> 0, inity |-> 0,
    filled |-> FALSE, fillcolor |-> 0, grp |-> 0 ]
\* TemporaryGroup(skipl=True), svlgui.py:2741-2742: the scene object of the
\* group g
NewTemporaryGroup(g) ==
  [ type |-> "TemporaryGroup", shapedata |-> << >>, text |-> << >>, cursorpos |-> 0,
    height |-> 0, x |-> 0, y |-> 0, initx |-> 0, inity |-> 0,
    filled |-> FALSE, fillcolor |-> 0, grp |-> g ]
\* Group(), svlgui.py:2497-2520, as a scene object: the symbol of the
\* group g
NewSymbol(g) ==
  [ type |-> "Group", shapedata |-> << >>, text |-> << >>, cursorpos |-> 0,
    height |-> 0, x |-> 0, y |-> 0, initx |-> 0, inity |-> 0,
    filled |-> FALSE, fillcolor |-> 0, grp |-> g ]
NewFrame == [ objs |-> << >>, currentselect |-> 0 ]
NewLayer(f) ==
  [ frames |-> <<f>>, currentframe |-> 0, activeframe |-> 0, level |-> FALSE,
    shadow |-> FALSE, currentselect |-> 0 ]
NewGroup(l, handlers) ==
  [ layers |-> <<l>>, al |-> 0, cshape |-> 0, startx |-> 0, starty |-> 0,
    handlers |-> handlers, tempgroup |-> 0 ]
\* the file written by save_file: nothing yet, a document, or a torn write
NoArchive == [ kind |-> "none" ]
LibEntry(type, ref) == [ type |-> type, ref |-> ref, val |-> [dir |-> 0, name |-> ""] ]
ImageEntry(d, n)    == [ type |-> "Image", ref |-> 0, val |-> [dir |-> d, name |-> n] ]

\* Layer.add of one object through Group.add, svlgui.py:2312-2319 and
\* frame.add, svlgui.py:2108: a wrapper at the end of the displayed frame.
\* Needs GroupFrame(s, g) > 0.
GroupAdd(s, g, o) ==
  LET f == GroupFrame(s, g)
      w == Len(s.wr) + 1
  IN  [ s EXCEPT
          !.wr = Append(@, framewrapper(o, s.ob[o].x, s.ob[o].y, 0, One, One,
                                        s.ob[o].filled, s.ob[o].fillcolor, f)),
          !.fr[f].objs = Append(@, w) ]

\* ------------------------------------------------------------------ Init
\* module setup of lightningbeam.py:553-604 on top of the svlgui globals
InitState ==
  [ MODE |-> " ", EDITING |-> TRUE, SCALING |-> FALSE, FILLCOLOR |-> 1,
    root |-> 1,
    grp |-> << NewGroup(1, "full") >>,
    ly |-> << [ NewLayer(1) EXCEPT !.level = TRUE ] >>,
    fr |-> << [ NewFrame EXCEPT !.objs = <<1>> ] >>,
    wr |-> << framewrapper(1, 100, 100, 0, One, One, FALSE, 1, 1) >>,
    ob |-> << NewShape(EllipseData(100, 50), 100, 100, 1, FALSE) >>,
    undo_stack |-> << >>, redo_stack |-> << >>,
    Library |-> << LibEntry("Shape", 1) >>,
    stage |-> << 1 >>, svroot |-> 1, tlroot |-> 1,
    SECURETEMPDIR |-> 1, dirs |-> {1}, FILE |-> "temp", archive |-> NoArchive,
    err |-> "none" ]

\* the program in the state s, with n events to come
Start(s, n) ==
  /\ MODE = s.MODE /\ EDITING = s.EDITING /\ SCALING = s.SCALING
  /\ FILLCOLOR = s.FILLCOLOR /\ root = s.root /\ grp = s.grp /\ ly = s.ly
  /\ fr = s.fr /\ wr = s.wr /\ ob = s.ob /\ undo_stack = s.undo_stack
  /\ redo_stack = s.redo_stack /\ Library = s.Library /\ stage = s.stage
  /\ svroot = s.svroot /\ tlroot = s.tlroot
  /\ SECURETEMPDIR = s.SECURETEMPDIR /\ dirs = s.dirs /\ FILE = s.FILE
  /\ archive = s.archive /\ err = s.err
  /\ mouse = "up"
  /\ ev = "init"
  /\ steps = n
  /\ typed = 0
  /\ snap = NoSnap

Init == Start(InitState, EditSteps)

\* ------------------------------------------------------------- toolbar
\* select_any .. paint_bucket, misc_funcs.py:15-54
ToolButton(m) ==
  /\ mouse = "up"
  /\ Apply([ S EXCEPT !.MODE = m ])
  /\ ev' = "tool"
  /\ snap' = NoSnap
  /\ UNCHANGED << mouse, typed >>

\* ------------------------------------------------------ stage: mouse down
\* onMouseDownObj, lightningbeam.py:168-181; self is the framewrapper w
onMouseDownObj(s, w, x, y) ==
  LET f  == GroupFrame(s, descendItem(s, s.root))
      me == s.wr[w]
      s1 == [ s EXCEPT !.wr[w].inited = TRUE,
                       !.wr[w].initx = x - me.x, !.wr[w].inity = y - me.y ]
  IN  IF f <= 0 THEN Raise(s, FrameErr(f))
      ELSE CASE s.MODE = " " ->
                  [ s1 EXCEPT !.undo_stack =
                      Append(@, maybe("move", WrRef(w), [x |-> me.x, y |-> me.y])) ]
             [] s.MODE = "s" ->
                  [ s1 EXCEPT !.undo_stack =
                      Append(@, maybe("scale", WrRef(w),
                                      [x |-> me.x, y |-> me.y,
                                       xscale |-> me.xscale, yscale |-> me.yscale])) ]
             [] s.MODE = "b" ->
                  LET s2 == IF ~(me.fillcolor = s.FILLCOLOR /\ me.filled)
                            THEN [ s1 EXCEPT
                                     !.undo_stack =
                                       Append(@, edit("fill", WrRef(w),
                                                [filled |-> me.filled, fillcolor |-> me.fillcolor],
                                                [filled |-> TRUE, fillcolor |-> s.FILLCOLOR])),
                                     !.redo_stack = clear(@) ]
                            ELSE s1
                  IN  [ s2 EXCEPT !.wr[w].filled = TRUE, !.wr[w].fillcolor = s.FILLCOLOR ]
             [] OTHER -> s1

\* onMouseDownText, lightningbeam.py:182-190
onMouseDownText(s, w, x, y) ==
  LET f == GroupFrame(s, descendItem(s, s.root))
  IN  IF f <= 0 THEN Raise(s, FrameErr(f))
      ELSE [ s EXCEPT !.wr[w].inited = TRUE,
                      !.wr[w].initx = x - s.wr[w].x, !.wr[w].inity = y - s.wr[w].y ]

\* TemporaryGroup.onMouseDown, svlgui.py:2753-2757; self1 is the wrapper w
onMouseDownTemp(s, w, x, y) ==
  IF WrHitTest(s, w, x, y)
  THEN [ s EXCEPT !.wr[w].inited = TRUE,
                  !.wr[w].initx = x - s.wr[w].x, !.wr[w].inity = y - s.wr[w].y ]
  ELSE s

\* framewrapper._onMouseDown: the wrapped object's onMouseDown
WrMouseDown(s, w, x, y) ==
  CASE s.ob[s.wr[w].obj].type = "Text"           -> onMouseDownText(s, w, x, y)
    [] s.ob[s.wr[w].obj].type = "TemporaryGroup" -> onMouseDownTemp(s, w, x, y)
    [] s.ob[s.wr[w].obj].type = "Group"          -> s      \* onMouseDownMC
    [] OTHER                                     -> onMouseDownObj(s, w, x, y)

Mimimi == << "M", "i", "m", "i", "m", "i" >>

\* onMouseDownGroup, lightningbeam.py:108-166; self is the group g
onMouseDownGroup(s, g, x, y) ==
  LET l == ActiveLayer(s, g)
      f == CurFrame(s, l)
      o == Len(s.ob) + 1
      w == Len(s.wr) + 1
      attrs == [ frame |-> s.ly[l].currentframe, layer |-> l ]
  IN  IF f <= 0 THEN Raise(s, FrameErr(f))
      ELSE CASE s.MODE \in {"r", "e"} ->
                  LET sd == IF s.MODE = "r" THEN BoxData(0, 0) ELSE EllipseData(0, 0)
                      s1 == [ s EXCEPT
                                !.ob = Append(@, [ NewShape(sd, x, y, s.FILLCOLOR, FALSE)
                                                     EXCEPT !.initx = x, !.inity = y ]),
                                !.Library = Append(@, LibEntry("Shape", o)),
                                !.grp[g].cshape = o ]
                      s2 == GroupAdd(s1, g, o)
                  IN  [ s2 EXCEPT !.undo_stack =
                          Append(@, maybe("add_object", GrpRef(g), attrs)) ]
             [] s.MODE = "p" ->
                  Raise(s, "AttributeError")      \* Group has no attribute lines
             [] s.MODE = "t" ->
                  LET s1 == [ s EXCEPT
                                !.ob = Append(@, NewText(Mimimi, x, y)),
                                !.Library = Append(@, LibEntry("Text", o)) ]
                      s2 == GroupAdd(s1, g, o)
                  IN  SetSel([ s2 EXCEPT
                                !.undo_stack =
                                   Append(@, edit("add_object", GrpRef(g), attrs,
                                                  [ frame |-> s.ly[l].currentframe,
                                                    layer |-> l, obj |-> w ])) ],
                             l, w)
             [] OTHER -> s

\* the end of a rubber band selection in Group._onMouseDown,
\* svlgui.py:2604-2607, with TemporaryGroup.split, svlgui.py:2747-2751.  The
\* x and y of the group are those of its wrapper: frame.play has drawn the
\* wrapper since it last moved, and framewrapper.draw calls update(),
\* svlgui.py:2044-2049.
Dissolve(s, g) ==
  LET f     == GroupFrame(s, g)
      tg    == s.grp[g].tempgroup
      objs  == s.fr[f].objs
      at    == { i \in 1..Len(objs) : s.wr[objs[i]].obj = tg }
      i     == SetMin(at)
      inner == Inner(s, tg)
      dx    == s.wr[objs[i]].x
      dy    == s.wr[objs[i]].y
  IN  IF at = {} THEN Raise(s, "ValueError")
      ELSE [ s EXCEPT
               !.wr = [ w \in DOMAIN @ |->
                          IF w \in Range(inner)
                          THEN [ @[w] EXCEPT !.x = @ + dx, !.y = @ + dy ]
                          ELSE @[w] ],
               !.fr[f].objs = RemoveAt(objs, i) \o inner,
               !.grp[g].tempgroup = 0 ]

\* the hit loop of Group._onMouseDown, svlgui.py:2594-2610; needs
\* GroupFrame(s, g) > 0
HitLoop(s, g, x, y) ==
  LET l     == ActiveLayer(s, g)
      f     == GroupFrame(s, g)
      objs  == s.fr[f].objs
      hits  == { i \in 1..Len(objs) : WrHitTest(s, objs[i], x, y) }
      hi    == IF hits = {} THEN 0 ELSE SetMax(hits)
      \* Text.hitTest resets the height of every Text it is asked about,
      \* svlgui.py:1819-1820
      asked == UNION { AskedBy(s, objs[i], x, y) :
                         i \in (IF hi = 0 THEN 1 ELSE hi)..Len(objs) }
      s0    == [ s EXCEPT !.ob = [ o \in DOMAIN @ |->
                                     IF o \in asked /\ @[o].type = "Text"
                                     THEN [ @[o] EXCEPT !.height = FontHeight ]
                                     ELSE @[o] ] ]
      miss(t) == LET t1 == IF t.grp[g].tempgroup # 0 THEN Dissolve(t, g) ELSE t
                 IN  IF t1.err # "none" THEN t1
                     ELSE [ SetSel(t1, l, 0) EXCEPT
                              !.grp[g].startx = x, !.grp[g].starty = y ]
  IN  IF hi = 0 THEN miss(s0)
      ELSE LET w    == objs[hi]
               test == s.MODE \in {" ", "s"}
               s1   == IF test THEN SetSel(s0, l, w) ELSE s0
               s2   == WrMouseDown(s1, w, x, y)
           IN  IF s2.err # "none" \/ test THEN s2 ELSE miss(s2)

\* Group._onMouseDown, svlgui.py:2572-2615 (localtransform is the identity:
\* the root group keeps x = y = rotation = 0).  The selection is a wrapper
\* when the scale handles are tried: see StageDown.
GroupMouseDown(s, g, x, y) ==
  LET l == ActiveLayer(s, g)
      f == CurFrame(s, l)
  IN  IF s.ly[l].level
      THEN IF SelErr(s, l) # "none" THEN Raise(s, SelErr(s, l))
           ELSE IF s.MODE \in {" ", "s", "b"}
                THEN LET cs == Sel(s, l)
                     IN  IF cs # 0 /\ s.MODE = "s"
                         THEN IF OnHandle(s, cs, x, y)
                              THEN WrMouseDown([ s EXCEPT !.SCALING = TRUE ], cs, x, y)
                              ELSE s
                         ELSE IF f <= 0 THEN Raise(s, FrameErr(f))
                              ELSE HitLoop(s, g, x, y)
                ELSE onMouseDownGroup(s, g, x, y)
      ELSE onMouseDownGroup(s, g, x, y)

\* OSXCanvas.mouse_down, svlgui.py:1092-1103: every object of the stage.
\* With the scale tool nothing is pressed while a rubber band selection
\* lasts: scaling a TemporaryGroup is "not working yet", svlgui.py:2762.
StageDown(p) ==
  /\ mouse = "up"
  /\ Len(undo_stack) < MaxUndo
  /\ (stage # << >> /\ MODE = "s") => grp[stage[1]].tempgroup = 0
  /\ MODE \in {"r", "e", "t"} => Len(ob) < MaxObjs
  /\ Apply(IF stage = << >> THEN S ELSE GroupMouseDown(S, stage[1], p[1], p[2]))
  /\ mouse' = "stage"
  /\ ev' = "down"
  /\ snap' = NoSnap
  /\ UNCHANGED typed

\* ------------------------------------------------------ stage: mouse drag
\* onMouseDragObj, lightningbeam.py:281-300
onMouseDragObj(s, w, x, y) ==
  LET me   == s.wr[w]
      maxx == WrMaxX(s, w)
      maxy == WrMaxY(s, w)
  IN  CASE s.MODE = " " ->
             IF ~me.inited THEN Raise(s, "AttributeError")
             ELSE [ s EXCEPT !.wr[w].x = x - me.initx, !.wr[w].y = y - me.inity ]
        [] s.MODE = "s" /\ s.SCALING ->
             IF ~me.inited THEN Raise(s, "AttributeError")
             ELSE IF maxx = 0 THEN Raise(s, "ZeroDivisionError")
             ELSE LET s1 == IF 2 * me.initx > maxx
                            THEN [ s EXCEPT !.wr[w].xscale = Rat(x - me.x, maxx) ]
                            ELSE [ s EXCEPT
                                     !.wr[w].xscale =
                                        Rat(2 * maxx + me.x - (x - me.initx) - x, maxx),
                                     !.wr[w].x = x ]
                  IN  IF maxy = 0 THEN Raise(s1, "ZeroDivisionError")
                      ELSE IF 2 * me.inity > maxy
                           THEN [ s1 EXCEPT !.wr[w].yscale = Rat(y - me.y, maxy) ]
                           ELSE [ s1 EXCEPT
                                    !.wr[w].yscale =
                                       Rat(3 * maxy + me.y - (y - me.inity) - y, maxy),
                                    !.wr[w].y = y ]
        [] OTHER -> s

\* onMouseDragText, lightningbeam.py:308-310
onMouseDragText(s, w, x, y) ==
  IF ~s.wr[w].inited THEN Raise(s, "AttributeError")
  ELSE [ s EXCEPT !.wr[w].x = x - s.wr[w].initx, !.wr[w].y = y - s.wr[w].inity ]

\* onMouseDragGroup, lightningbeam.py:263-280 (never reached in modes " "
\* and "s", which Group._onMouseDrag keeps for the selected object)
onMouseDragGroup(s, g, x, y) ==
  LET c == s.grp[g].cshape
  IN  CASE s.MODE \in {"r", "e"} ->
             IF c = 0 THEN Raise(s, "AttributeError")
             ELSE LET sd == s.ob[c].shapedata
                      dx == x - s.ob[c].initx
                      dy == y - s.ob[c].inity
                  IN  IF s.MODE = "r"
                      THEN [ s EXCEPT !.ob[c].shapedata =
                               << sd[1], << dx, sd[1][2] >>, << dx, dy >>,
                                  << sd[1][1], dy >>, sd[5] >> ]
                      ELSE [ s EXCEPT !.ob[c].shapedata = EllipseData(dx, dy) ]
        [] s.MODE = "p" -> Raise(s, "AttributeError")      \* cshape is None
        [] OTHER -> s

\* TemporaryGroup.onMouseDrag, svlgui.py:2758-2774; self1 is the wrapper w,
\* or the group itself (w = 0), which has no initx.  With the scale tool
\* SCALING is false: see StageDown.
onMouseDragTemp(s, w, x, y) ==
  CASE s.MODE = " " ->
         IF w = 0 \/ ~s.wr[w].inited THEN Raise(s, "AttributeError")
         ELSE [ s EXCEPT !.wr[w].x = x - s.wr[w].initx, !.wr[w].y = y - s.wr[w].inity ]
    [] s.MODE # " " /\ ~(s.MODE = "s" /\ s.SCALING) -> s

\* Group._onMouseDrag, svlgui.py:2654-2662
GroupMouseDrag(s, g, x, y) ==
  LET l == ActiveLayer(s, g)
      f == CurFrame(s, l)
  IN  IF s.ly[l].level /\ s.MODE \in {" ", "s"}
      THEN IF SelErr(s, l) # "none" THEN Raise(s, SelErr(s, l))
           ELSE LET cs == Sel(s, l)
                IN  CASE cs = 0 -> s
                      [] cs < 0 -> onMouseDragTemp(s, 0, x, y)
                      [] cs > 0 /\ s.ob[s.wr[cs].obj].type = "Text" ->
                           onMouseDragText(s, cs, x, y)
                      [] cs > 0 /\ s.ob[s.wr[cs].obj].type = "TemporaryGroup" ->
                           onMouseDragTemp(s, cs, x, y)
                      [] cs > 0 /\ s.ob[s.wr[cs].obj].type = "Group" ->
                           s                           \* Group.onMouseDrag
                      [] OTHER -> onMouseDragObj(s, cs, x, y)
      ELSE IF s.grp[g].handlers = "full" THEN onMouseDragGroup(s, g, x, y) ELSE s

\* OSXCanvas.mouse_drag, svlgui.py:1105-1112
StageDrag(p) ==
  /\ mouse = "stage"
  /\ Apply(IF stage = << >> THEN S ELSE GroupMouseDrag(S, stage[1], p[1], p[2]))
  /\ mouse' = "stagedrag"
  /\ ev' = "drag"
  /\ snap' = NoSnap
  /\ UNCHANGED typed

\* -------------------------------------------------------- stage: mouse up
\* onMouseUpObj, lightningbeam.py:222-238
onMouseUpObj(s, w) ==
  LET me  == s.wr[w]
      n   == Len(s.undo_stack)
      top == s.undo_stack[n]
  IN  IF n = 0 THEN Raise(s, "IndexError")
      ELSE IF top.cls = "maybe" /\ top.obj = WrRef(w)
      THEN CASE top.type = "move" ->
                  IF me.x # top.from_attrs.x \/ me.y # top.from_attrs.y
                  THEN [ s EXCEPT
                           !.undo_stack[n] = complete(top, [x |-> me.x, y |-> me.y]),
                           !.redo_stack = clear(@) ]
                  ELSE [ s EXCEPT !.undo_stack = Front(@) ]
             [] top.type = "scale" ->
                  IF \/ me.x # top.from_attrs.x \/ me.y # top.from_attrs.y
                     \/ RatDiffers(me.xscale, top.from_attrs.xscale)
                     \/ RatDiffers(me.yscale, top.from_attrs.yscale)
                  THEN [ s EXCEPT
                           !.undo_stack[n] =
                              complete(top, [x |-> me.x, y |-> me.y,
                                             xscale |-> me.xscale, yscale |-> me.yscale]),
                           !.redo_stack = clear(@) ]
                  ELSE [ s EXCEPT !.undo_stack = Front(@) ]
             [] OTHER -> s
      ELSE s

\* onMouseUpGroup, lightningbeam.py:196-221
onMouseUpGroup(s, g) ==
  LET l   == ActiveLayer(s, g)
      f   == CurFrame(s, l)
      n   == Len(s.undo_stack)
      top == s.undo_stack[n]
      s1  == [ s EXCEPT !.grp[g].cshape = 0 ]
  IN  CASE s.MODE \in {"r", "e"} ->
             IF f <= 0 THEN Raise(s1, FrameErr(f))
             ELSE IF s.fr[f].objs = << >> \/ n = 0 THEN Raise(s1, "IndexError")
             ELSE IF top.cls = "maybe" /\ top.obj = GrpRef(g) /\ top.type = "add_object"
             THEN [ s1 EXCEPT
                      !.undo_stack[n] =
                         complete(top, [ obj |-> Last(s.fr[f].objs),
                                         frame |-> s.ly[l].currentframe, layer |-> l ]),
                      !.redo_stack = clear(@) ]
             ELSE s1
        [] s.MODE = "p" -> Raise(s, "AttributeError")      \* cshape is None
        [] OTHER -> s

\* the rubber band of Group._onMouseUp starts when nothing is selected and
\* the release is more than BandMin away from the press, svlgui.py:2627
BandStarts(s, g, x, y) ==
  LET l == ActiveLayer(s, g)
      f == CurFrame(s, l)
  IN  /\ s.ly[l].level /\ s.MODE \in {" ", "s"}
      /\ SelErr(s, l) = "none"
      /\ Sel(s, l) = 0
      /\ Abs(s.grp[g].startx - x) > BandMin \/ Abs(s.grp[g].starty - y) > BandMin

\* the rubber band of Group._onMouseUp, svlgui.py:2627-2640, for a release
\* that starts one.  The loop runs over reversed(currentFrame()) and deletes
\* the wrapper it is at, which leaves the wrappers still to come in place;
\* TemporaryGroup.add wraps the caught objects anew, in their old order,
\* each at the x, y, filled and fillcolor its object has: those of the
\* caught wrapper since frame.play last drew it, svlgui.py:2044-2059.
GroupBand(s, g, x, y) ==
  LET l      == ActiveLayer(s, g)
      f      == CurFrame(s, l)
      s0     == [ s EXCEPT !.SCALING = FALSE ]
      sx     == s.grp[g].startx
      sy     == s.grp[g].starty
      In(a, v, b) == a < v /\ v < b
      caught(w) ==
        /\ In(sx, s.wr[w].x + WrMinX(s, w), x) \/ In(sx, s.wr[w].x + WrMaxX(s, w), x)
        /\ In(sy, s.wr[w].y + WrMinY(s, w), y) \/ In(sy, s.wr[w].y + WrMaxY(s, w), y)
      objs   == SelectSeq(s.fr[f].objs, caught)
      rest   == SelectSeq(s.fr[f].objs, LAMBDA w : ~caught(w))
      g2     == Len(s.grp) + 1
      l2     == Len(s.ly) + 1
      f2     == Len(s.fr) + 1
      tgroup == Len(s.ob) + 1
      n      == Len(s.wr)
      wt     == n + Len(objs) + 1
      inner  == [ k \in 1..Len(objs) |->
                    LET i == s.wr[objs[k]]
                    IN  framewrapper(i.obj, i.x, i.y, 0, One, One,
                                     i.filled, i.fillcolor, f2) ]
      s1     == [ s0 EXCEPT
                    !.grp = Append(@, NewGroup(l2, "none")),
                    !.ly  = Append(@, NewLayer(f2)),
                    !.fr  = Append([ @ EXCEPT ![f].objs = Append(rest, wt) ],
                                   [ NewFrame EXCEPT
                                       !.objs = [ k \in 1..Len(objs) |-> n + k ] ]),
                    !.ob  = Append(@, NewTemporaryGroup(g2)),
                    !.wr  = (@ \o inner) \o
                            << framewrapper(tgroup, 0, 0, 0, One, One, FALSE, 0, f) >>,
                    !.grp[g].tempgroup = tgroup ]
  IN  IF f <= 0 THEN Raise(s0, FrameErr(f))
      ELSE IF objs = << >> THEN s0
      ELSE SetSel(s1, l, -tgroup)

\* Group._onMouseUp, svlgui.py:2618-2642, for a release that starts no
\* rubber band
GroupMouseUp(s, g, x, y) ==
  LET l  == ActiveLayer(s, g)
      f  == CurFrame(s, l)
      s0 == [ s EXCEPT !.SCALING = FALSE ]
  IN  IF s.ly[l].level /\ s.MODE \in {" ", "s"}
      THEN IF SelErr(s, l) # "none" THEN Raise(s0, SelErr(s, l))
           ELSE LET cs == Sel(s, l)
                IN  CASE cs = 0 -> s0
                      [] cs < 0 -> s0                  \* Group.onMouseUp
                      [] cs > 0 /\ s.ob[s.wr[cs].obj].type = "Text" ->
                           s0                          \* onMouseUpText
                      [] cs > 0 /\ IsGroup(s, s.wr[cs].obj) ->
                           s0                          \* Group.onMouseUp
                      [] OTHER -> onMouseUpObj(s0, cs)
      ELSE onMouseUpGroup(s0, g)

\* OSXCanvas.mouse_up, svlgui.py:1120-1124, for a release that starts no
\* rubber band
StageUp(p) ==
  /\ mouse \in {"stage", "stagedrag"}
  /\ stage # << >> => ~BandStarts(S, stage[1], p[1], p[2])
  /\ Apply(IF stage = << >> THEN S ELSE GroupMouseUp(S, stage[1], p[1], p[2]))
  /\ mouse' = "up"
  /\ ev' = "up"
  /\ snap' = NoSnap
  /\ UNCHANGED typed

\* OSXCanvas.mouse_up, svlgui.py:1120-1124, for a release that starts a
\* rubber band
BandUp(p) ==
  /\ mouse \in {"stage", "stagedrag"}
  /\ stage # << >>
  /\ BandStarts(S, stage[1], p[1], p[2])
  /\ Apply(GroupBand(S, stage[1], p[1], p[2]))
  /\ mouse' = "up"
  /\ ev' = "band"
  /\ snap' = NoSnap
  /\ UNCHANGED typed

\* ----------------------------------------------------------------- keys
\* the keys of onKeyDownGroup and onKeyDownObj that set MODE,
\* lightningbeam.py:316 and 334
ModeKeys == {" ", "s", "r", "e", "b", "p"}

\* str(key) as Text.onKeyDown inserts it, svlgui.py:1893
KeyChars(key) ==
  IF key = "escape" THEN << "e", "s", "c", "a", "p", "e" >> ELSE << key >>

\* onKeyDownGroup, lightningbeam.py:314-329
onKeyDownGroup(s, g, key) ==
  IF ~s.EDITING
  THEN IF key \in ModeKeys THEN [ s EXCEPT !.MODE = key ] ELSE s
  ELSE IF key = "escape" THEN [ s EXCEPT !.EDITING = FALSE ] ELSE s

\* onKeyDownObj, lightningbeam.py:330-349
onKeyDownObj(s, w, key) ==
  LET me == s.wr[w]
      i  == IndexOf(s.fr[me.parent].objs, w)
  IN  CASE key \in {"delete", "backspace"} ->
             IF i = 0 THEN Raise(s, "ValueError")
             ELSE [ s EXCEPT !.fr[me.parent].objs = RemoveAt(@, i) ]
        [] key \in ModeKeys -> [ s EXCEPT !.MODE = key ]
        [] key = "left_arrow" -> [ s EXCEPT !.wr[w].x = @ - 1 ]
        [] OTHER -> s

\* the lines of a text, svlgui.py:1868
Newlines(t) == Cardinality({ i \in 1..Len(t) : t[i] = "\n" })

\* Text.onKeyDown, svlgui.py:1852-1909
TextOnKeyDown(s, o, key) ==
  LET me == s.ob[o]
      t  == me.text
      cp == me.cursorpos
      s1 == CASE key = "enter" ->
                   LET t1 == SubSeq(t, 1, cp) \o << "\n" >> \o SubSeq(t, cp + 1, Len(t))
                   IN  [ s EXCEPT !.ob[o].text = t1,
                                  !.ob[o].height = FontHeight * (Newlines(t1) + 1),
                                  !.ob[o].cursorpos = cp + 1 ]
              [] key = "backspace" ->
                   IF cp > 0
                   THEN [ s EXCEPT
                            !.ob[o].text = SubSeq(t, 1, cp - 1) \o SubSeq(t, cp + 1, Len(t)),
                            !.ob[o].cursorpos = cp - 1 ]
                   ELSE s
              [] key = "delete" ->
                   IF cp < Len(t)
                   THEN [ s EXCEPT
                            !.ob[o].text = SubSeq(t, 1, cp) \o SubSeq(t, cp + 2, Len(t)) ]
                   ELSE s
              [] key = "left_arrow" ->
                   IF cp > 0 THEN [ s EXCEPT !.ob[o].cursorpos = cp - 1 ] ELSE s
              [] OTHER ->
                   [ s EXCEPT
                       !.ob[o].text = SubSeq(t, 1, cp) \o KeyChars(key) \o SubSeq(t, cp + 1, Len(t)),
                       !.ob[o].cursorpos = cp + 1 ]
      now == [ text |-> s1.ob[o].text, cursorpos |-> s1.ob[o].cursorpos ]
      n   == Len(s.undo_stack)
      top == s.undo_stack[n]
  IN  IF key # "enter"
      THEN IF n > 0 /\ top.cls = "maybe"
           THEN IF top.obj = ObRef(o)
                THEN [ s1 EXCEPT !.undo_stack[n].to_attrs = now ]
                ELSE [ s1 EXCEPT !.undo_stack = Append(@, maybe("text", ObRef(o), now)) ]
           ELSE [ s1 EXCEPT !.undo_stack = Append(@, maybe("text", ObRef(o), now)) ]
      ELSE IF n = 0 THEN Raise(s1, "IndexError")
           ELSE IF top.cls # "maybe" THEN Raise(s1, "AttributeError")
           ELSE Raise([ s1 EXCEPT !.undo_stack[n] = complete(top, now) ],
                      "NameError")          \* clear(redo_stack): no such name in svlgui

\* TemporaryGroup.onKeyDown, svlgui.py:2777-2795; self1 is the wrapper w, or
\* the group itself (w = 0), which has no parent and whose x the next
\* framewrapper.update overwrites
onKeyDownTemp(s, w, key) ==
  CASE key \in {"delete", "backspace"} ->
         IF w = 0 THEN Raise(s, "AttributeError")
         ELSE LET i == IndexOf(s.fr[s.wr[w].parent].objs, w)
              IN  IF i = 0 THEN Raise(s, "ValueError")
                  ELSE [ s EXCEPT !.fr[s.wr[w].parent].objs = RemoveAt(@, i) ]
    [] key \in {" ", "s", "r", "e", "b", "p"} ->
         Raise(s, "NameError")                 \* svlgui: no such name in svlgui
    [] key = "left_arrow" ->
         IF w = 0 THEN s ELSE [ s EXCEPT !.wr[w].x = @ - 1 ]
    [] OTHER -> s

\* Group._onKeyDown, svlgui.py:2665-2670, and framewrapper._onKeyDown
GroupKeyDown(s, g, key) ==
  LET l == ActiveLayer(s, g)
      f == CurFrame(s, l)
  IN  IF s.ly[l].level /\ s.MODE \in {" ", "s", "t"}
      THEN IF SelErr(s, l) # "none" THEN Raise(s, SelErr(s, l))
           ELSE LET cs == Sel(s, l)
                IN  CASE cs = 0 -> s
                      [] cs < 0 -> onKeyDownTemp(s, 0, key)
                      [] cs > 0 /\ s.ob[s.wr[cs].obj].type = "Text" ->
                           TextOnKeyDown(s, s.wr[cs].obj, key)
                      [] cs > 0 /\ s.ob[s.wr[cs].obj].type = "TemporaryGroup" ->
                           onKeyDownTemp(s, cs, key)
                      [] cs > 0 /\ s.ob[s.wr[cs].obj].type = "Group" ->
                           s                           \* Group.onKeyDown
                      [] OTHER -> onKeyDownObj(s, cs, key)
      ELSE IF s.grp[g].handlers = "full" THEN onKeyDownGroup(s, g, key) ELSE s

\* the Text object a key would reach, 0 if none
KeyTarget(s) ==
  IF s.stage = << >> THEN 0
  ELSE LET g == s.stage[1]
           l == ActiveLayer(s, g)
           f == CurFrame(s, l)
       IN  IF s.ly[l].level /\ s.MODE \in {" ", "s", "t"} /\ SelErr(s, l) = "none"
              /\ Sel(s, l) > 0
              /\ s.ob[s.wr[Sel(s, l)].obj].type = "Text"
           THEN s.wr[Sel(s, l)].obj
           ELSE 0

\* OSXCanvas.key_down, svlgui.py:1126-1140
KeyDown(key) ==
  /\ KeyTarget(S) # 0 => typed < MaxKeys
  /\ Apply(IF stage = << >> THEN S ELSE GroupKeyDown(S, stage[1], key))
  /\ ev' = "key"
  /\ typed' = IF KeyTarget(S) # 0 THEN typed + 1 ELSE typed
  /\ snap' = NoSnap
  /\ UNCHANGED mouse

\* ------------------------------------------------------------ undo, redo
\* the attributes an edit of each type restores, lightningbeam.py:849-866
AttrsOf(type) ==
  CASE type = "move"  -> {"x", "y"}
    [] type = "scale" -> {"x", "y", "xscale", "yscale"}
    [] type = "fill"  -> {"filled", "fillcolor"}
    [] type = "text"  -> {"text", "cursorpos"}
    [] OTHER -> {}

\* SetAttrs with the y of a moved object left where it is
SetAttrsLosesY(s, e, at) ==
  LET i == e.obj[2]
  IN  CASE e.type = "move" ->
             [ s EXCEPT !.wr[i].x = at.x ]
        [] e.type = "scale" ->
             [ s EXCEPT !.wr[i].x = at.x, !.wr[i].y = at.y,
                        !.wr[i].xscale = at.xscale, !.wr[i].yscale = at.yscale ]
        [] e.type = "fill" ->
             [ s EXCEPT !.wr[i].filled = at.filled, !.wr[i].fillcolor = at.fillcolor ]
        [] e.type = "text" ->
             [ s EXCEPT !.ob[i].text = at.text, !.ob[i].cursorpos = at.cursorpos ]

\* the wrapper or Text e.obj with the attributes set to the values of at
SetAttrs(s, e, at) ==
  LET i == e.obj[2]
  IN  CASE e.type = "move" ->
             [ s EXCEPT !.wr[i].x = at.x, !.wr[i].y = at.y ]
        [] e.type = "scale" ->
             [ s EXCEPT !.wr[i].x = at.x, !.wr[i].y = at.y,
                        !.wr[i].xscale = at.xscale, !.wr[i].yscale = at.yscale ]
        [] e.type = "fill" ->
             [ s EXCEPT !.wr[i].filled = at.filled, !.wr[i].fillcolor = at.fillcolor ]
        [] e.type = "text" ->
             [ s EXCEPT !.ob[i].text = at.text, !.ob[i].cursorpos = at.cursorpos ]

\* undo, lightningbeam.py:846-871
undo(s) ==
  LET n == Len(s.undo_stack)
      e == s.undo_stack[n]
      s1 == [ s EXCEPT !.undo_stack = Front(@) ]              \* e = undo_stack.pop()
  IN  IF n > 0 /\ e.cls = "edit"
      THEN IF e.type \in {"move", "scale", "fill", "text"}
           THEN IF ~Has(e.from_attrs, AttrsOf(e.type)) THEN Raise(s1, "KeyError")
                ELSE [ SetAttrs(s1, e, e.from_attrs) EXCEPT !.redo_stack = Append(@, e) ]
           ELSE \* add_object
                LET l  == e.from_attrs.layer
                    s2 == IF Sel(s, l) = e.to_attrs.obj THEN SetSel(s1, l, 0) ELSE s1
                    g  == FrameAt(s, l, e.from_attrs.frame)
                    i  == IndexOf(s.fr[g].objs, e.to_attrs.obj)
                IN  IF SelErr(s, l) # "none" THEN Raise(s1, SelErr(s, l))
                    ELSE IF g <= 0 THEN Raise(s2, FrameErr(g))
                    ELSE IF i = 0 THEN Raise(s2, "ValueError")
                    ELSE [ s2 EXCEPT !.fr[g].objs = RemoveAt(@, i),
                                     !.redo_stack = Append(@, e) ]
      ELSE s

\* redo, lightningbeam.py:873-896
redo(s) ==
  LET n == Len(s.redo_stack)
      e == s.redo_stack[n]
      s1 == [ s EXCEPT !.redo_stack = Front(@) ]              \* e = redo_stack.pop()
  IN  IF n > 0 /\ e.cls = "edit"
      THEN IF e.type \in {"move", "scale", "fill", "text"}
           THEN IF ~Has(e.to_attrs, AttrsOf(e.type)) THEN Raise(s1, "KeyError")
                ELSE [ SetAttrs(s1, e, e.to_attrs) EXCEPT !.undo_stack = Append(@, e) ]
           ELSE \* add_object
                LET g == FrameAt(s, e.to_attrs.layer, e.from_attrs.frame)
                IN  IF g <= 0 THEN Raise(s1, FrameErr(g))
                    ELSE [ s1 EXCEPT !.fr[g].objs = Append(@, e.to_attrs.obj),
                                     !.undo_stack = Append(@, e) ]
      ELSE s

\* Edit > Undo
Undo ==
  /\ Apply(undo(S))
  /\ ev' = "undo"
  /\ snap' = IF ev = "undo"
             THEN [ snap EXCEPT !.undos = Min2(@ + 1, MaxUndo + 1) ]
             ELSE [ undos |-> 1, pre |-> S ]
  /\ UNCHANGED << mouse, typed >>

\* Edit > Redo
Redo ==
  /\ Apply(redo(S))
  /\ ev' = IF ev = "undo" /\ snap.undos = 1 THEN "undoredo" ELSE "redo"
  /\ snap' = IF ev = "undo" /\ snap.undos = 1 THEN snap ELSE NoSnap
  /\ UNCHANGED << mouse, typed >>

\* ------------------------------------------------------ paste, fill colour
\* paste with a text on the clipboard and the stage focused,
\* lightningbeam.py:908-929
paste(s) ==
  LET g  == descendItem(s, s.root)
      l  == ActiveLayer(s, g)
      f  == CurFrame(s, l)
      o  == Len(s.ob) + 1
      w  == Len(s.wr) + 1
      s1 == [ s EXCEPT !.ob = Append(@, NewText(ClipText, 200, 100)),
                       !.Library = Append(@, LibEntry("Text", o)) ]
      s2 == GroupAdd(s1, g, o)
  IN  IF f <= 0 THEN Raise(s1, FrameErr(f))
      ELSE SetSel([ s2 EXCEPT
                      !.undo_stack =
                         Append(@, edit("add_object", GrpRef(g),
                                        [ frame |-> s.ly[l].currentframe, layer |-> l ],
                                        [ frame |-> s.ly[l].currentframe, layer |-> l,
                                          obj |-> w ])) ],
                  l, w)

\* Edit > Paste
Paste ==
  /\ Len(undo_stack) < MaxUndo
  /\ Len(ob) < MaxObjs
  /\ Apply(paste(S))
  /\ ev' = "paste"
  /\ snap' = NoSnap
  /\ UNCHANGED << mouse, typed >>

\* ColorSelectionWindow.onClickRectFill, svlgui.py:3000-3014
onClickRectFill(s, c) ==
  LET g  == descendItem(s, s.svroot)
      l  == ActiveLayer(s, g)
      f  == CurFrame(s, l)
      s1 == [ s EXCEPT !.FILLCOLOR = c ]
  IN  IF SelErr(s, l) # "none" THEN Raise(s1, SelErr(s, l))
      ELSE LET cs == Sel(s, l)
           IN  IF cs = 0 THEN s1
               ELSE IF cs < 0 \/ s.ob[s.wr[cs].obj].type # "Shape"
                    THEN Raise(s1, "AttributeError")    \* no fillcolor
               ELSE IF ~(s.wr[cs].fillcolor = c /\ s.wr[cs].filled)
                    THEN Raise(s1, "NameError")         \* svlgui.FILLCOLOR
               ELSE s1

\* a click on a colour of the fill colour window
ColorPick(c) ==
  /\ mouse = "up"
  /\ Apply(onClickRectFill(S, c))
  /\ ev' = "color"
  /\ snap' = NoSnap
  /\ UNCHANGED << mouse, typed >>

\* ------------------------------------------------- symbols, stacking order
\* Layer.delete of one wrapper, svlgui.py:2320-2325; needs CurFrame(s, l) > 0
LayerDelete(s, l, w) ==
  LET f == CurFrame(s, l)
      i == IndexOf(s.fr[f].objs, w)
  IN  IF i = 0 THEN s ELSE [ s EXCEPT !.fr[f].objs = RemoveAt(@, i) ]

\* ConvertToSymbolWindow.confirm, svlgui.py:3161-3170.  The selected object
\* has the x, y, filled and fillcolor of its selected wrapper: those that
\* framewrapper.update wrote when the wrapper was last drawn.
confirm(s) ==
  LET g      == descendItem(s, s.root)
      l      == ActiveLayer(s, g)
      f      == CurFrame(s, l)
      cs     == Sel(s, l)
      g2     == Len(s.grp) + 1
      l2     == Len(s.ly) + 1
      f2     == Len(s.fr) + 1
      symbol == Len(s.ob) + 1
      n      == Len(s.wr)
      s1     == [ s EXCEPT
                    !.grp = Append(@, NewGroup(l2, "mc")),
                    !.ly  = Append(@, NewLayer(f2)),
                    !.fr  = Append(@, NewFrame),
                    !.ob  = Append(@, NewSymbol(g2)),
                    !.Library = Append(@, LibEntry("Group", g2)) ]
      s2     == [ s1 EXCEPT
                    !.wr = Append(@, framewrapper(s.wr[cs].obj, s.wr[cs].x, s.wr[cs].y,
                                                  0, One, One, s.wr[cs].filled,
                                                  s.wr[cs].fillcolor, f2)),
                    !.fr[f2].objs = << n + 1 >> ]
      s3     == LayerDelete(s2, l, cs)
  IN  IF cs < 0 THEN Raise(s1, "AttributeError")       \* a Group has no obj
      ELSE IF f <= 0 THEN Raise(s2, FrameErr(f))
      ELSE [ s3 EXCEPT
               !.wr = Append(@, framewrapper(symbol, 0, 0, 0, One, One, FALSE, 0, f)),
               !.fr[f].objs = Append(@, n + 2) ]

\* convert_to_symbol, lightningbeam.py:980-986, and the answer to its dialog
convert_to_symbol(s, answer) ==
  LET l == ActiveLayer(s, descendItem(s, s.root))
  IN  IF SelErr(s, l) # "none" THEN Raise(s, SelErr(s, l))
      ELSE IF Sel(s, l) = 0 \/ answer = "cancel" THEN s
      ELSE confirm(s)

\* Modify > Convert to Symbol
ConvertToSymbol(answer) ==
  /\ mouse = "up"
  /\ Cardinality({ o \in 1..Len(ob) : ob[o].type = "Group" }) < MaxSymbols
  /\ Apply(convert_to_symbol(S, answer))
  /\ ev' = "symbol"
  /\ snap' = NoSnap
  /\ UNCHANGED << mouse, typed >>

\* Reordered with send_backward exchanging with the object above
ReorderedSwapsAbove(rac, index, cmd) ==
  LET swap(i, j) == [ rac EXCEPT ![i] = rac[j], ![j] = rac[i] ]
  IN  CASE cmd = "send_to_back" ->
             IF index > 1
             THEN (<< rac[index] >> \o SubSeq(rac, 1, index - 1))
                    \o SubSeq(rac, index + 1, Len(rac))
             ELSE rac
        [] cmd = "send_backward" ->
             IF index < Len(rac) THEN swap(index + 1, index) ELSE rac
        [] cmd = "bring_forward" ->
             IF index < Len(rac) THEN swap(index + 1, index) ELSE rac
        [] cmd = "bring_to_front" ->
             Append(RemoveAt(rac, index), rac[index])

\* the list rac after each of the four commands, lightningbeam.py:948-977;
\* index is that of the selection in rac, from 1
Reordered(rac, index, cmd) ==
  LET swap(i, j) == [ rac EXCEPT ![i] = rac[j], ![j] = rac[i] ]
  IN  CASE cmd = "send_to_back" ->
             IF index > 1
             THEN (<< rac[index] >> \o SubSeq(rac, 1, index - 1))
                    \o SubSeq(rac, index + 1, Len(rac))
             ELSE rac
        [] cmd = "send_backward" ->
             IF index > 1 THEN swap(index - 1, index) ELSE rac
        [] cmd = "bring_forward" ->
             IF index < Len(rac) THEN swap(index + 1, index) ELSE rac
        [] cmd = "bring_to_front" ->
             Append(RemoveAt(rac, index), rac[index])

\* send_to_back, send_backward, bring_forward and bring_to_front,
\* lightningbeam.py:945-978
arrange(s, cmd) ==
  LET g     == descendItem(s, s.root)
      l     == ActiveLayer(s, g)
      f     == CurFrame(s, l)
      index == IndexOf(s.fr[f].objs, Sel(s, l))
  IN  IF SelErr(s, l) # "none" THEN Raise(s, SelErr(s, l))
      ELSE IF f <= 0 THEN Raise(s, FrameErr(f))
      ELSE IF index = 0 THEN Raise(s, "ValueError")         \* rac.index
      ELSE [ s EXCEPT !.fr[f].objs = Reordered(@, index, cmd) ]

Commands == {"send_to_back", "send_backward", "bring_forward", "bring_to_front"}

\* Modify > Send to Back, Send Backward, Bring Forward, Bring to Front
Arrange(cmd) ==
  /\ mouse = "up"
  /\ Apply(arrange(S, cmd))
  /\ ev' = cmd
  /\ snap' = NoSnap
  /\ UNCHANGED << mouse, typed >>

\* ------------------------------------------------------------- timeline
\* cells of the timeline the mouse is pressed and released in
TimelineXs == { FrameWidth * i + 8 : i \in 0..MaxIndex }

\* Group.setactiveframe and Group.setcurrentframe, svlgui.py:2473-2484
setactiveframe(s, g, frame) ==
  LET l == ActiveLayer(s, g)
  IN  IF FrameAt(s, l, frame) > 0
      THEN [ s EXCEPT !.ly[l].currentframe = frame, !.ly[l].activeframe = frame ]
      ELSE [ s EXCEPT !.ly[l].activeframe = frame ]

\* onClickFrame, lightningbeam.py:89-95
onClickFrame(s, x) ==
  LET g == descendItem(s, s.root)
      f == GroupFrame(s, g)
  IN  IF f <= 0 THEN Raise(s, FrameErr(f))
      ELSE setactiveframe(s, g, x \div FrameWidth)

\* onMouseUpFrame, lightningbeam.py:241-255
onMouseUpFrame(s, x) ==
  LET g      == descendItem(s, s.root)
      l      == ActiveLayer(s, g)
      af     == s.ly[l].activeframe
      index  == x \div FrameWidth
      F      == s.ly[l].frames
      F1     == IF index > Len(F)
                THEN F \o [ i \in 1..(index + 1 - Len(F)) |-> 0 ]
                ELSE F
      F2     == InsertAt(RemoveAt(F1, af + 1), index + 1, F1[af + 1])
      F3     == IF index > af \/ \E i \in (index + 2)..Len(F2) : F2[i] # 0
                THEN F2
                ELSE SubSeq(F2, 1, Min2(index + 1, Len(F2)))
  IN  IF DescendErr(s, g) # "none" THEN Raise(s, DescendErr(s, g))
      ELSE IF af = s.ly[l].currentframe
      THEN IF af >= Len(F1)
           THEN Raise([ s EXCEPT !.ly[l].frames = F1 ], "IndexError")   \* pop
           ELSE setactiveframe([ s EXCEPT !.ly[l].frames = F3 ], g, index)
      ELSE s

\* Layer.add_frame, svlgui.py:2326-2346
add_frame(s, l) ==
  LET af  == s.ly[l].activeframe
      F   == s.ly[l].frames
      F1  == IF af > Len(F) THEN F \o [ i \in 1..(af + 1 - Len(F)) |-> 0 ] ELSE F
      nf  == Len(s.fr) + 1
      gap == F1[af + 1] = 0
      earlier == { i \in 0..(af - 1) : F1[i + 1] # 0 }
      lastframe == IF gap /\ earlier # {} THEN SetMax(earlier) ELSE af
      a2  == IF gap THEN af ELSE af + 1
      F2  == IF gap THEN [ F1 EXCEPT ![af + 1] = nf ] ELSE InsertAt(F1, a2 + 1, nf)
      src == IF F2[lastframe + 1] = nf THEN << >> ELSE s.fr[F2[lastframe + 1]].objs
      \* frame.add(i.obj, i.x, i.y, i.rot): the scale is not passed on; the
      \* fill is read back from the object i.update() has just written
      copy(i) == framewrapper(s.wr[i].obj, s.wr[i].x, s.wr[i].y, s.wr[i].rot, One, One,
                              s.wr[i].filled, s.wr[i].fillcolor, nf)
  IN  IF af >= Len(F1)
      THEN Raise([ s EXCEPT !.ly[l].frames = F1 ], "IndexError")
      ELSE [ s EXCEPT
               !.ly[l].frames = F2,
               !.ly[l].activeframe = a2,
               !.ly[l].currentframe = a2,
               !.wr = @ \o [ k \in 1..Len(src) |-> copy(src[k]) ],
               !.fr = Append(@, [ NewFrame EXCEPT
                                    !.objs = [ k \in 1..Len(src) |-> Len(s.wr) + k ] ]) ]

\* add_keyframe, lightningbeam.py:931-934
add_keyframe(s) ==
  IF DescendErr(s, s.root) # "none" THEN Raise(s, DescendErr(s, s.root))
  ELSE add_frame(s, ActiveLayer(s, descendItem(s, s.root)))

\* Group.add_layer, svlgui.py:2543-2546
add_layer(s, g, index) ==
  [ s EXCEPT
      !.fr = Append(@, NewFrame),
      !.ly = Append(@, [ NewLayer(Len(s.fr) + 1) EXCEPT !.level = TRUE ]),
      !.grp[g].layers = InsertAt(@, index + 2, Len(s.ly) + 1),
      !.grp[g].al = index + 1 ]

\* Group.delete_layer, svlgui.py:2547-2556, then the draw of a widget the
\* window does not have, lightningbeam.py:943
delete_layer(s) ==
  LET g  == descendItem(s, s.root)
      al == s.grp[g].al
      L1 == RemoveAt(s.grp[g].layers, al + 1)
      a1 == IF al < Len(L1) THEN al ELSE Len(L1) - 1
      s1 == [ s EXCEPT !.grp[g].layers = L1, !.grp[g].al = a1 ]
  IN  IF DescendErr(s, g) # "none" THEN Raise(s, DescendErr(s, g))
      ELSE Raise(IF a1 < 0 THEN add_layer(s1, g, -1) ELSE s1, "AttributeError")

\* FramesCanvas.mouse_down, svlgui.py:3248-3251
TimelineDown(x) ==
  /\ mouse = "up"
  /\ Apply(onClickFrame(S, x))
  /\ mouse' = "timeline"
  /\ ev' = "tldown"
  /\ snap' = NoSnap
  /\ UNCHANGED typed

\* FramesCanvas.mouse_drag with onMouseDragFrame, lightningbeam.py:311-313:
\* only the position shown while dragging changes
TimelineDrag(x) ==
  /\ mouse = "timeline"
  /\ Apply(S)
  /\ ev' = "tldrag"
  /\ snap' = NoSnap
  /\ UNCHANGED << mouse, typed >>

\* FramesCanvas.mouse_up, svlgui.py:3257-3259
TimelineUp(x) ==
  /\ mouse = "timeline"
  /\ Apply(onMouseUpFrame(S, x))
  /\ mouse' = "up"
  /\ ev' = "tlup"
  /\ snap' = NoSnap
  /\ UNCHANGED typed

\* Timeline > Add Keyframe
AddKeyframe ==
  /\ mouse = "up"
  /\ Len(fr) < MaxFrames
  /\ Apply(add_keyframe(S))
  /\ ev' = "keyframe"
  /\ snap' = NoSnap
  /\ UNCHANGED << mouse, typed >>

\* Timeline > Add Layer, lightningbeam.py:935-939
AddLayer ==
  /\ mouse = "up"
  /\ Len(grp[descendItem(S, root)].layers) < MaxLayers
  /\ Apply(IF DescendErr(S, root) # "none" THEN Raise(S, DescendErr(S, root))
           ELSE add_layer(S, descendItem(S, root), grp[descendItem(S, root)].al))
  /\ ev' = "layer"
  /\ snap' = NoSnap
  /\ UNCHANGED << mouse, typed >>

\* Timeline > Delete Layer, lightningbeam.py:940-943
DeleteLayer ==
  /\ mouse = "up"
  /\ Apply(delete_layer(S))
  /\ ev' = "dellayer"
  /\ snap' = NoSnap
  /\ UNCHANGED << mouse, typed >>

\* ----------------------------------------------------------------- .sc
\* Group.maxframe, svlgui.py:2681-2685
maxframe(s, g) ==
  SetMax({0} \cup { Len(s.ly[s.grp[g].layers[k]].frames) : k \in 1..Len(s.grp[g].layers) })

\* Group.print_sc, svlgui.py:2692-2705: the '.frame i+1' blocks in the order
\* they are emitted, each as << i+1, position of the layer >>, up to the
\* first j.frames[i] that is out of range.  The text frame.print_sc puts
\* into a block is not part of the result.
print_sc(s, g) ==
  LET layers == s.grp[g].layers
      L      == Len(layers)
      M      == maxframe(s, g)
      i(n)   == (n - 1) \div L
      k(n)   == ((n - 1) % L) + 1
      frames(n) == s.ly[layers[k(n)]].frames
      bad    == { n \in 1..(M * L) : i(n) >= Len(frames(n)) }
      stop   == IF bad = {} THEN M * L ELSE SetMin(bad) - 1
      asked  == [ n \in 1..stop |-> n ]
      kept   == SelectSeq(asked, LAMBDA n : frames(n)[i(n) + 1] # 0)
  IN  [ err    |-> IF bad = {} THEN "none" ELSE "IndexError",
        blocks |-> [ n \in 1..Len(kept) |-> << i(kept[n]) + 1, k(kept[n]) >> ] ]

\* ---------------------------------------------------------------- files
\* names of the image files the import dialog offers
ImportNames == {"a"}
\* answers of a file dialog
Dialog == {"cancel", "choose"}

\* import_to_stage of an image, lightningbeam.py:720-751: the converted
\* copy goes to SECURETEMPDIR, Color(thefile) enters the Library before
\* the box that it fills, svlgui.py:84-96 and lightningbeam.py:530-541
import_to_stage(s, n) ==
  LET d  == s.SECURETEMPDIR
      c  == Len(s.Library) + 1
      o  == Len(s.ob) + 1
      g  == descendItem(s, s.root)
      f  == GroupFrame(s, g)
      s1 == [ s EXCEPT !.Library = Append(@, ImageEntry(d, n)) ]
      s2 == [ s1 EXCEPT !.ob = Append(@, NewShape(BoxData(200, 200), 100, 100, -c, TRUE)),
                        !.Library = Append(@, LibEntry("Shape", o)) ]
  IN  IF d \notin s.dirs THEN Raise(s1, "IOError")          \* set_image
      ELSE IF f <= 0 THEN Raise(s2, FrameErr(f))
      ELSE GroupAdd(s2, g, o)

\* new_file, lightningbeam.py:607-615
new_file(s) ==
  LET g == Len(s.grp) + 1
      l == Len(s.ly) + 1
      f == Len(s.fr) + 1
  IN  IF s.root \notin Range(s.stage) THEN Raise(s, "ValueError")   \* stage.delete
      ELSE [ s EXCEPT
               !.stage = Append(RemoveAt(@, IndexOf(@, s.root)), g),
               !.fr = Append(@, NewFrame),
               !.ly = Append(@, [ NewLayer(f) EXCEPT !.level = TRUE ]),
               !.grp = Append(@, NewGroup(l, "new")),
               !.Library = Append(@, LibEntry("Group", g)),
               !.root = g ]

\* what pickle.dumps((root, svlgui.Library)) holds
Doc(s) == [ root |-> s.root, grp |-> s.grp, ly |-> s.ly, fr |-> s.fr, wr |-> s.wr,
            ob |-> s.ob, Library |-> s.Library ]

\* a reference moved behind the objects already on the heap; None stays
Shift(n, off) == IF n = 0 THEN 0 ELSE n + off
\* a selection moved: a wrapper w, or a scene object -o
ShiftSel(n, ow, oo) == IF n < 0 THEN n - oo ELSE Shift(n, ow)

\* pickle.load of a document: a copy of every object, with the copy's
\* references among the copies; the images move to the directory d
Load(s, doc, d) ==
  LET og == Len(s.grp)
      ol == Len(s.ly)
      of == Len(s.fr)
      ow == Len(s.wr)
      oo == Len(s.ob)
      G(r) == [ r EXCEPT !.layers = [ i \in 1..Len(@) |-> @[i] + ol ],
                         !.cshape = Shift(@, oo),
                         !.tempgroup = Shift(@, oo) ]
      L(r) == [ r EXCEPT !.frames = [ i \in 1..Len(@) |-> Shift(@[i], of) ],
                         !.currentselect = ShiftSel(@, ow, oo) ]
      F(r) == [ r EXCEPT !.objs = [ i \in 1..Len(@) |-> @[i] + ow ],
                         !.currentselect = Shift(@, ow) ]
      W(r) == [ r EXCEPT !.obj = @ + oo, !.parent = @ + of ]
      O(r) == [ r EXCEPT !.grp = Shift(@, og) ]
      E(r) == CASE r.type = "Image" -> [ r EXCEPT !.val.dir = d ]
                [] r.type = "Group" -> [ r EXCEPT !.ref = @ + og ]
                [] OTHER -> [ r EXCEPT !.ref = @ + oo ]
  IN  [ s EXCEPT
          !.grp = @ \o [ i \in 1..Len(doc.grp) |-> G(doc.grp[i]) ],
          !.ly  = @ \o [ i \in 1..Len(doc.ly) |-> L(doc.ly[i]) ],
          !.fr  = @ \o [ i \in 1..Len(doc.fr) |-> F(doc.fr[i]) ],
          !.wr  = @ \o [ i \in 1..Len(doc.wr) |-> W(doc.wr[i]) ],
          !.ob  = @ \o [ i \in 1..Len(doc.ob) |-> O(doc.ob[i]) ],
          !.Library = [ i \in 1..Len(doc.Library) |-> E(doc.Library[i]) ],
          !.root = doc.root + og ]

\* open_file, lightningbeam.py:616-643
open_file(s, answer) ==
  LET d  == s.SECURETEMPDIR
      s1 == [ s EXCEPT !.stage = RemoveAt(@, IndexOf(@, s.root)) ]
      s2 == [ s1 EXCEPT !.dirs = @ \ {d} ]
      s3 == Load(s2, s.archive.doc, d + 1)
  IN  IF s.root \notin Range(s.stage) THEN Raise(s, "ValueError")   \* stage.delete
      ELSE IF d \notin s.dirs THEN Raise(s1, "OSError")              \* rmtree
      ELSE IF answer = "cancel" THEN s2
      ELSE IF s.archive.kind # "ok" THEN Raise(s2, "ReadError")
      ELSE [ s3 EXCEPT !.SECURETEMPDIR = d + 1,
                       !.dirs = @ \cup {d + 1},
                       !.stage = Append(@, s3.root),
                       !.tlroot = s3.root ]

\* the loop over the Library of save_file, lightningbeam.py:661-687, and of
\* save_file_as, lightningbeam.py:703-717: the Image entries in order, up to
\* the first that raises
Fails(s, as, k) ==
  /\ s.Library[k].type = "Image"
  /\ \/ as                                       \* i.path: no such attribute
     \/ s.Library[k].val.dir = 0                 \* i.origpath: no such attribute
     \/ s.Library[k].val.dir \notin s.dirs       \* OSError, then i.pilimage
SaveLoop(s, as) ==
  LET bad  == { k \in 1..Len(s.Library) : Fails(s, as, k) }
      stop == IF bad = {} THEN Len(s.Library) + 1 ELSE SetMin(bad)
      s1   == [ s EXCEPT !.Library =
                  [ k \in 1..Len(@) |->
                      IF @[k].type = "Image" /\ k < stop
                      THEN [ @[k] EXCEPT !.val.dir = 0 ]
                      ELSE @[k] ] ]
  IN  IF bad = {}
      THEN [ s1 EXCEPT !.archive = [ kind |-> "ok", doc |-> Doc(s) ],
                       !.FILE = "file" ]
      ELSE Raise([ s1 EXCEPT !.archive = [ kind |-> "torn" ] ], "AttributeError")

\* save_file, lightningbeam.py:646-688
save_file(s, answer) ==
  IF s.FILE = "temp" /\ answer = "cancel" THEN s ELSE SaveLoop(s, FALSE)

\* save_file_as, lightningbeam.py:690-719
save_file_as(s, answer) ==
  IF answer = "cancel" THEN s ELSE SaveLoop(s, TRUE)

\* File > Import to Stage with a file chosen
ImportToStage(n) ==
  /\ mouse = "up"
  /\ Len(ob) < MaxObjs
  /\ Apply(import_to_stage(S, n))
  /\ ev' = "import"
  /\ snap' = NoSnap
  /\ UNCHANGED << mouse, typed >>

\* File > New
NewFile ==
  /\ mouse = "up"
  /\ Len(grp) < MaxDocs
  /\ Apply(new_file(S))
  /\ ev' = "new"
  /\ snap' = NoSnap
  /\ UNCHANGED << mouse, typed >>

\* File > Open
OpenFile(answer) ==
  /\ mouse = "up"
  /\ Len(grp) < MaxDocs
  /\ answer = "choose" => archive.kind # "none"
  /\ Apply(open_file(S, answer))
  /\ ev' = IF answer = "cancel" THEN "opencancel" ELSE "open"
  /\ snap' = NoSnap
  /\ UNCHANGED << mouse, typed >>

\* File > Save
SaveFile(answer) ==
  /\ mouse = "up"
  /\ Apply(save_file(S, answer))
  /\ ev' = IF FILE = "temp" /\ answer = "cancel" THEN "savecancel" ELSE "save"
  /\ snap' = NoSnap
  /\ UNCHANGED << mouse, typed >>

\* File > Save As
SaveFileAs(answer) ==
  /\ mouse = "up"
  /\ Apply(save_file_as(S, answer))
  /\ ev' = IF answer = "cancel" THEN "savecancel" ELSE "saveas"
  /\ snap' = NoSnap
  /\ UNCHANGED << mouse, typed >>

\* -------------------------------------------------------- specifications
\* The program handles one event at a time.  Next is every event; the
\* specifications below keep the events of one part of the program each.
Next ==
  \/ \E m \in Modes : ToolButton(m)
  \/ \E p \in StagePts : StageDown(p)
  \/ \E p \in StagePts : StageDrag(p)
  \/ \E p \in StagePts : StageUp(p)
  \/ \E k \in Keys : KeyDown(k)
  \/ Undo
  \/ Redo
  \/ Paste
  \/ \E c \in Colors : ColorPick(c)
  \/ \E p \in StagePts : BandUp(p)
  \/ \E a \in Dialog : ConvertToSymbol(a)
  \/ \E c \in Commands : Arrange(c)
  \/ \E x \in TimelineXs : TimelineDown(x)
  \/ \E x \in TimelineXs : TimelineDrag(x)
  \/ \E x \in TimelineXs : TimelineUp(x)
  \/ AddKeyframe
  \/ AddLayer
  \/ DeleteLayer
  \/ \E n \in ImportNames : ImportToStage(n)
  \/ NewFile
  \/ \E a \in Dialog : OpenFile(a)
  \/ \E a \in Dialog : SaveFile(a)
  \/ \E a \in Dialog : SaveFileAs(a)

Spec == Init /\ [][Next]_vars

\* editing: the stage, the keyboard, the toolbar and the Edit menu
EditTools == {" ", "s", "b", "r", "e", "t", "p"}
EditKeys  == {"r", "a", "enter", "backspace", "left_arrow"}
EditNext ==
  \/ \E m \in EditTools : ToolButton(m)
  \/ \E p \in StagePts : StageDown(p)
  \/ \E p \in StagePts : StageDrag(p)
  \/ \E p \in StagePts : StageUp(p)
  \/ \E k \in EditKeys : KeyDown(k)
  \/ Undo
  \/ Redo
  \/ Paste
  \/ \E c \in Colors : ColorPick(c)

EditSpec == Init /\ [][EditNext]_vars

\* gestures, then undo: move, scale and fill gestures on the shapes of the
\* one frame, each pressed and released before the next event, and then
\* nothing but undo
GestureTools == {" ", "s", "b"}
GestureTool(m) == ev # "undo" /\ ToolButton(m)
GestureDown(p) == ev # "undo" /\ StageDown(p)
GestureUndo    == mouse = "up" /\ Undo
GestureNext ==
  \/ \E m \in GestureTools : GestureTool(m)
  \/ \E p \in StagePts : GestureDown(p)
  \/ \E p \in StagePts : StageDrag(p)
  \/ \E p \in StagePts : StageUp(p)
  \/ GestureUndo

\* the document as started, or with one image imported
GestureInit ==
  \/ Start(InitState, GestureSteps)
  \/ \E n \in ImportNames : Start(import_to_stage(InitState, n), GestureSteps)

GestureSpec == GestureInit /\ [][GestureNext]_vars

\* keys: every key in every mode, with and without a selection, in the
\* first document and in a new one
KeyNext ==
  \/ \E m \in Modes : ToolButton(m)
  \/ \E k \in Keys : KeyDown(k)
  \/ \E p \in StagePts : StageDown(p)
  \/ \E p \in StagePts : StageUp(p)
  \/ Paste
  \/ NewFile

KeyInit == Start(InitState, KeySteps)

KeySpec == KeyInit /\ [][KeyNext]_vars

\* the timeline, with objects added to its frames and undone
TimelineNext ==
  \/ \E x \in TimelineXs : TimelineDown(x)
  \/ \E x \in TimelineXs : TimelineDrag(x)
  \/ \E x \in TimelineXs : TimelineUp(x)
  \/ AddKeyframe
  \/ AddLayer
  \/ DeleteLayer
  \/ Paste
  \/ Undo
  \/ Redo

TimelineInit == Start(InitState, TimelineSteps)

TimelineSpec == TimelineInit /\ [][TimelineNext]_vars

\* the File menu
FileNext ==
  \/ \E n \in ImportNames : ImportToStage(n)
  \/ NewFile
  \/ \E a \in Dialog : OpenFile(a)
  \/ \E a \in Dialog : SaveFile(a)
  \/ \E a \in Dialog : SaveFileAs(a)

FileInit == Start(InitState, FileSteps)

FileSpec == FileInit /\ [][FileNext]_vars

\* selecting: clicks and rubber bands with the selection tool, the keys
\* that act on the selection, and the Edit and Modify menus
SelectPts  == { <<50, 50>>, <<150, 120>>, <<204, 92>>, <<300, 300>> }
SelectKeys == {"delete", "left_arrow"}
SelectNext ==
  \/ \E p \in SelectPts : StageDown(p)
  \/ \E p \in SelectPts : StageDrag(p)
  \/ \E p \in SelectPts : StageUp(p)
  \/ \E p \in SelectPts : BandUp(p)
  \/ \E k \in SelectKeys : KeyDown(k)
  \/ Paste
  \/ Undo
  \/ Redo
  \/ \E a \in Dialog : ConvertToSymbol(a)
  \/ \E c \in Commands : Arrange(c)

SelectInit == Start(InitState, SelectSteps)

SelectSpec == SelectInit /\ [][SelectNext]_vars

\* keyframes: move, scale and fill gestures on the shapes of a layer whose
\* keyframes are added and selected on the timeline
FrameNext ==
  \/ \E m \in GestureTools : ToolButton(m)
  \/ \E p \in StagePts : StageDown(p)
  \/ \E p \in StagePts : StageDrag(p)
  \/ \E p \in StagePts : StageUp(p)
  \/ \E x \in TimelineXs : TimelineDown(x)
  \/ \E x \in TimelineXs : TimelineUp(x)
  \/ AddKeyframe

FrameInit == Start(InitState, FrameSteps)

FrameSpec == FrameInit /\ [][FrameNext]_vars

\* ---------------------------------------------------------------- claims
\* the attributes of the object of the edit e that e names, in the state s
Named(s, e) ==
  LET i == e.obj[2]
  IN  CASE e.type = "move"  -> [ x |-> s.wr[i].x, y |-> s.wr[i].y ]
        [] e.type = "scale" -> [ x |-> s.wr[i].x, y |-> s.wr[i].y,
                                 xscale |-> s.wr[i].xscale, yscale |-> s.wr[i].yscale ]
        [] e.type = "fill"  -> [ filled |-> s.wr[i].filled, fillcolor |-> s.wr[i].fillcolor ]
        [] e.type = "text"  -> [ text |-> s.ob[i].text, cursorpos |-> s.ob[i].cursorpos ]

\* an undo of a completed move, scale, fill or text edit has just been
\* followed by a redo
PairDone ==
  /\ ev = "undoredo"
  /\ snap.pre.undo_stack # << >>
  /\ Last(snap.pre.undo_stack).cls = "edit"
  /\ Last(snap.pre.undo_stack).type \in {"move", "scale", "fill", "text"}

\* C1: undo() followed by redo() of a completed move, scale, fill or text
\* edit leaves the attributes of the edit's object and both stacks exactly
\* as they were before the pair.
C1_UndoRedoRoundTrip ==
  PairDone =>
    /\ Named(S, Last(snap.pre.undo_stack)) = Named(snap.pre, Last(snap.pre.undo_stack))
    /\ undo_stack = snap.pre.undo_stack
    /\ redo_stack = snap.pre.redo_stack

\* the documents GestureSpec starts from hold these wrappers, with these
\* attributes, before the first gesture
Started == import_to_stage(InitState, CHOOSE n \in ImportNames : TRUE)
Reverse(q) == [ i \in 1..Len(q) |-> q[Len(q) + 1 - i] ]
ShapeAttrs(w) == << w.x, w.y, w.xscale, w.yscale, w.filled, w.fillcolor >>

\* C2: after n completed move, scale or fill gestures on the shapes of one
\* frame and nothing else, n calls of undo() leave every shape's x, y,
\* xscale, yscale, filled and fillcolor at their values from before the
\* first gesture, the undo stack empty, and the n records on the redo
\* stack, the last gesture's record undone first.
C2_UndoAllReverts ==
  (ev = "undo" /\ snap.undos = Len(snap.pre.undo_stack)) =>
    /\ \A w \in 1..Len(wr) : ShapeAttrs(wr[w]) = ShapeAttrs(Started.wr[w])
    /\ undo_stack = << >>
    /\ redo_stack = Reverse(snap.pre.undo_stack)

\* three gestures, not all of one kind, have been undone
C2_Witness ==
  /\ ev = "undo"
  /\ snap.undos = 3
  /\ Len(snap.pre.undo_stack) = 3
  /\ \A i \in 1..3 : snap.pre.undo_stack[i].cls = "edit"
  /\ \E i, j \in 1..3 : snap.pre.undo_stack[i].type # snap.pre.undo_stack[j].type
  /\ \E w \in 1..Len(wr) : ShapeAttrs(snap.pre.wr[w]) # ShapeAttrs(Started.wr[w])

\* a step other than undo and redo that leaves a completed edit record on top
\* of the undo stack, pushed by the step or completed by it from a maybe
Placed ==
  /\ ev' \notin {"undo", "redo", "undoredo"}
  /\ undo_stack' # undo_stack
  /\ undo_stack' # << >>
  /\ Last(undo_stack').cls = "edit"
  /\ \/ Len(undo_stack') > Len(undo_stack)
     \/ /\ Len(undo_stack') = Len(undo_stack)
        /\ Last(undo_stack).cls = "maybe"

\* C3: whenever a user action places a completed edit record on the undo
\* stack (move, scale, fill, an object added with the rectangle, ellipse or
\* text tool or by paste, a committed text edit), the redo stack is empty
\* immediately after that action.
C3_RedoEmptyAfterEdit == [][Placed => redo_stack' = << >>]_vars

\* the records a mouse-down pushes to be resolved by the mouse-up
GestureMaybes(stack) ==
  { i \in 1..Len(stack) : /\ stack[i].cls = "maybe"
                          /\ stack[i].type \in {"move", "scale", "add_object"} }

\* C4: every maybe record pushed by a mouse-down (move, scale, add_object) is
\* resolved by the matching mouse-up, completed or removed; between mouse
\* gestures no such maybe record is on the undo stack.
C4_NoMaybeBetweenGestures ==
  mouse = "up" => GestureMaybes(undo_stack) = {}

\* a key-down that starts a text edit: it pushes a text maybe record
TextEditStarts ==
  /\ ev' = "key"
  /\ Len(undo_stack') = Len(undo_stack) + 1
  /\ Last(undo_stack').cls = "maybe"
  /\ Last(undo_stack').type = "text"

\* C5: the text record created when keystrokes edit a Text object stores in
\* from_attrs the text and cursor position the object had before the first
\* keystroke of the edit.
C5_TextFromAttrs ==
  [][TextEditStarts =>
       LET o == Last(undo_stack').obj[2]
       IN  Last(undo_stack').from_attrs =
             [ text |-> ob[o].text, cursorpos |-> ob[o].cursorpos ]]_vars

\* the frames holding the wrapper w in the frame heap frs
Homes(frs, w) == { f \in 1..Len(frs) : w \in Range(frs[f].objs) }

\* the frame heap frs with w taken out of frame f and f's selection of w cleared
Without(frs, f, w) ==
  [ frs EXCEPT ![f].objs = RemoveAt(@, IndexOf(@, w)),
               ![f].currentselect = IF @ = w THEN 0 ELSE @ ]

\* an undo of a completed add_object record
UndoesAdd ==
  /\ ev' = "undo"
  /\ undo_stack # << >>
  /\ Last(undo_stack).cls = "edit"
  /\ Last(undo_stack).type = "add_object"

\* a redo right after an undo of a completed add_object record
RedoesAdd ==
  /\ ev' = "undoredo"
  /\ snap.pre.undo_stack # << >>
  /\ Last(snap.pre.undo_stack).cls = "edit"
  /\ Last(snap.pre.undo_stack).type = "add_object"

\* C6: whatever timeline operations (add_keyframe, dragging a keyframe) came
\* between recording an add_object edit and undoing it, undo() removes
\* exactly the added wrapper from the frame it was added to, clears that
\* frame's selection if the wrapper was selected and changes no other frame;
\* a following redo() puts the wrapper back as the last element of that
\* same frame.
C6_UndoAddAfterTimeline ==
  [][ /\ UndoesAdd =>
           \E f \in Homes(fr, Last(undo_stack).to_attrs.obj) :
              fr' = Without(fr, f, Last(undo_stack).to_attrs.obj)
      /\ RedoesAdd =>
           \E f \in Homes(snap.pre.fr, Last(snap.pre.undo_stack).to_attrs.obj) :
              /\ fr'[f].objs # << >>
              /\ Last(fr'[f].objs) = Last(snap.pre.undo_stack).to_attrs.obj ]_vars

\* open_file reaches its file dialog and the user cancels it
OpenCancelled ==
  /\ ev' = "opencancel"
  /\ root \in Range(stage)
  /\ SECURETEMPDIR \in dirs

\* C7: if the user cancels the file dialog of open_file the document is left
\* unchanged: the root group is still among the stage's objects, and root,
\* Library and the secure temporary directory are as before the call.
C7_OpenCancelKeepsDocument ==
  [][OpenCancelled =>
       /\ root' \in Range(stage')
       /\ root' = root
       /\ grp' = grp /\ ly' = ly /\ fr' = fr /\ wr' = wr /\ ob' = ob
       /\ Library' = Library
       /\ SECURETEMPDIR' = SECURETEMPDIR
       /\ SECURETEMPDIR' \in dirs']_vars

\* save_file or save_file_as with a file to write to
Saves == ev' \in {"save", "saveas"}

\* C8: save_file and save_file_as write the pair (root, Library) to the
\* archive and leave the document in memory unchanged: root and every
\* Library entry, the val of every Image entry included, are after the call
\* what they were before it.
C8_SaveKeepsDocument ==
  [][Saves =>
       /\ archive' = [ kind |-> "ok", doc |-> Doc(S) ]
       /\ root' = root
       /\ grp' = grp /\ ly' = ly /\ fr' = fr /\ wr' = wr /\ ob' = ob
       /\ Library' = Library]_vars

\* no text is being edited: the editing flag is off and no Text object would
\* receive the key
NoTextEdited == ~EDITING /\ KeyTarget(S) = 0

\* C9: for each of the ten tool modes, a key-down of the mode's key
\* delivered to the stage while no text is being edited sets MODE to that
\* key, from every current mode and whether or not an object is selected.
C9_ModeKeysSetMode ==
  [][\A k \in Modes :
       (stage # << >> /\ NoTextEdited /\ KeyDown(k)) => MODE' = k]_vars

\* the layers of the document's root group
RootLayers == Range(grp[root].layers)

\* C10: in every reachable state each layer's currentframe indexes an
\* existing keyframe: 0 <= currentframe < len(frames) and
\* frames[currentframe] is not None, after any sequence of timeline clicks,
\* keyframe drags, add_keyframe, add_layer and delete_layer.
C10_CurrentFrameExists ==
  \A l \in RootLayers :
     /\ 0 <= ly[l].currentframe
     /\ ly[l].currentframe < Len(ly[l].frames)
     /\ ly[l].frames[ly[l].currentframe + 1] # 0


\* the wrappers in the frames of the layers of the group g and of the
\* groups wrapped there
RECURSIVE Wrapped(_, _)
Wrapped(s, g) ==
  LET frames == UNION { { f \in Range(s.ly[l].frames) : f # 0 } :
                          l \in Range(s.grp[g].layers) }
      here   == UNION { Range(s.fr[f].objs) : f \in frames }
  IN  here \cup UNION { Wrapped(s, s.ob[s.wr[w].obj].grp) :
                          w \in { v \in here : IsGroup(s, s.wr[v].obj) } }

\* the scene object o is an element of svlgui.Library
InLibrary(s, o) ==
  \E k \in 1..Len(s.Library) :
     IF IsGroup(s, o)
     THEN s.Library[k].type = "Group" /\ s.Library[k].ref = s.ob[o].grp
     ELSE s.Library[k].type = s.ob[o].type /\ s.Library[k].ref = o

\* C11: every scene object wrapped by a framewrapper in a frame of a layer
\* of the document is an element of svlgui.Library, also after a rubber
\* band selection, convert-to-symbol, paste, undo and redo.
C11_WrappedInLibrary ==
  \A w \in Wrapped(S, root) : InLibrary(S, wr[w].obj)


\* x, y, rot, xscale, yscale, filled and fillcolor of a wrapper
Placement(r) == << r.x, r.y, r.rot, r.xscale, r.yscale, r.filled, r.fillcolor >>

\* the wrappers, in keyframes of the layer l other than the displayed one,
\* of objects the displayed keyframe wraps too
Elsewhere(s, l) ==
  LET f == CurFrame(s, l)
  IN  IF f <= 0 THEN {}
      ELSE { v \in UNION { Range(s.fr[g].objs) : g \in Range(s.ly[l].frames) \ {0, f} } :
               \E w \in Range(s.fr[f].objs) : s.wr[w].obj = s.wr[v].obj }

\* C12: a move, scale or fill gesture on the stage, which shows the
\* displayed keyframe, leaves x, y, rot, xscale, yscale, filled and
\* fillcolor of the wrappers of the same objects in every other keyframe of
\* the layer unchanged.
C12_OtherKeyframesKeep ==
  [][ev' \in {"down", "drag", "up"} =>
       \A v \in Elsewhere(S, ActiveLayer(S, root)) :
          Placement(wr'[v]) = Placement(wr[v])]_vars


\* the scene objects the sequence of wrappers q wraps
ObjsOf(s, q) == { s.wr[q[i]].obj : i \in 1..Len(q) }

\* C13: a rubber band around several objects followed by a press on empty
\* stage is a round trip on the displayed frame.  The band moves the caught
\* objects, at their positions, into the TemporaryGroup; the press leaves
\* the frame with wrappers of the same objects as before the band and no
\* TemporaryGroup, each object at its position plus the displacement of
\* the group, each wrapper's parent being the frame itself.
C13_BandRoundTrip ==
  [][LET f  == GroupFrame(S, root)
         tg == grp[root].tempgroup
         in == Inner(S, tg)
     IN  /\ (ev' = "band" /\ grp'[root].tempgroup # tg) =>
               LET caught == { w \in Range(fr[f].objs) : w \notin Range(fr'[f].objs) }
                   new    == Inner([S EXCEPT !.grp = grp', !.ly = ly', !.fr = fr', !.ob = ob'],
                                   grp'[root].tempgroup)
               IN  /\ { wr[w].obj : w \in caught } = { wr'[new[i]].obj : i \in 1..Len(new) }
                   /\ \A w \in caught : \E i \in 1..Len(new) :
                          /\ wr'[new[i]].obj = wr[w].obj
                          /\ wr'[new[i]].x = wr[w].x
                          /\ wr'[new[i]].y = wr[w].y
         /\ (ev' = "down" /\ tg # 0 /\ grp'[root].tempgroup = 0 /\ Len(in) >= 2) =>
               LET tw == CHOOSE w \in Range(fr[f].objs) : wr[w].obj = tg
               IN  /\ { wr'[v].obj : v \in Range(fr'[f].objs) }
                         = (ObjsOf(S, fr[f].objs) \ {tg}) \cup ObjsOf(S, in)
                   /\ \A v \in Range(fr'[f].objs) : ob'[wr'[v].obj].type # "TemporaryGroup"
                   /\ \A i \in 1..Len(in) : \E v \in Range(fr'[f].objs) :
                          /\ wr'[v].obj = wr[in[i]].obj
                          /\ wr'[v].x = wr[in[i]].x + wr[tw].x
                          /\ wr'[v].y = wr[in[i]].y + wr[tw].y
                   /\ \A v \in Range(fr'[f].objs) : wr'[v].parent = f]_vars


\* C14: for layers of any, possibly different, lengths Group.print_sc
\* completes and emits exactly one '.frame i+1' block for every layer and
\* every index i at which the layer holds a keyframe, and no other block.
C14_PrintScEveryKeyframe ==
  LET r      == print_sc(S, root)
      layers == grp[root].layers
      keys   == { << i + 1, k >> : i \in 0..MaxIndex, k \in 1..Len(layers) }
      held   == { p \in keys : /\ p[1] <= Len(ly[layers[p[2]]].frames)
                                /\ ly[layers[p[2]]].frames[p[1]] # 0 }
  IN  /\ r.err = "none"
      /\ \A p \in held : Cardinality({ n \in 1..Len(r.blocks) : r.blocks[n] = p }) = 1
      /\ \A n \in 1..Len(r.blocks) : r.blocks[n] \in held


\* C15: whatever timeline index is selected (inside the layer's frame list,
\* exactly at its end, or beyond it), Add Keyframe completes without error,
\* and afterwards frames[activeframe] is a keyframe and currentframe equals
\* activeframe.
C15_AddFrameMakesKeyframe ==
  [][(ev' = "keyframe" /\ DescendErr(S, root) = "none") =>
       LET l == ActiveLayer(S, descendItem(S, root))
       IN  /\ err' = "none"
           /\ ly'[l].activeframe < Len(ly'[l].frames)
           /\ ly'[l].frames[ly'[l].activeframe + 1] # 0
           /\ ly'[l].currentframe = ly'[l].activeframe]_vars


\* C16: the keyframe Add Keyframe creates holds one wrapper for each wrapper
\* of the source keyframe (the keyframe at activeframe if there is one,
\* otherwise the nearest keyframe before it), in the same order and with the
\* same x, y, rot, xscale and yscale; the wrappers of the source keyframe
\* are unchanged.
C16_AddFrameCopies ==
  [][(ev' = "keyframe" /\ err' = "none") =>
       LET l   == ActiveLayer(S, descendItem(S, root))
           af  == ly[l].activeframe
           F   == ly[l].frames
           at  == { i \in 0..af : i < Len(F) /\ F[i + 1] # 0 }
           src == IF at = {} THEN << >> ELSE fr[F[SetMax(at) + 1]].objs
           new == fr'[ly'[l].frames[ly'[l].activeframe + 1]].objs
       IN  /\ Len(new) = Len(src)
           /\ \A k \in 1..Len(src) :
                 /\ wr'[new[k]].obj = wr[src[k]].obj
                 /\ wr'[new[k]].x = wr[src[k]].x
                 /\ wr'[new[k]].y = wr[src[k]].y
                 /\ wr'[new[k]].rot = wr[src[k]].rot
                 /\ wr'[new[k]].xscale = wr[src[k]].xscale
                 /\ wr'[new[k]].yscale = wr[src[k]].yscale
                 /\ wr'[src[k]] = wr[src[k]]]_vars


\* the keyframes of the frame list F other than k, in their order
OtherKeyframes(F, k) == SelectSeq(F, LAMBDA f : f # 0 /\ f # k)

\* C17: when the selected frame is the displayed keyframe, a release on the
\* timeline at index i, for every i >= 0 (also i equal to and greater than
\* the length of the frame list), leaves that keyframe at index i, keeps
\* every other keyframe of the layer in the same relative order, and sets
\* currentframe and activeframe to i.
C17_DragPutsKeyframeAtIndex ==
  [][LET l  == ActiveLayer(S, descendItem(S, root))
         af == ly[l].activeframe
         F  == ly[l].frames
     IN  (/\ ev' = "tlup"
          /\ DescendErr(S, root) = "none"
          /\ af = ly[l].currentframe
          /\ FrameAt(S, l, af) > 0) =>
           \A x \in TimelineXs :
              (ly' = onMouseUpFrame(S, x).ly /\ err' = onMouseUpFrame(S, x).err) =>
                 LET i == x \div FrameWidth
                 IN  /\ err' = "none"
                     /\ i < Len(ly'[l].frames)
                     /\ ly'[l].frames[i + 1] = F[af + 1]
                     /\ OtherKeyframes(ly'[l].frames, F[af + 1]) = OtherKeyframes(F, F[af + 1])
                     /\ ly'[l].currentframe = i
                     /\ ly'[l].activeframe = i]_vars


After == [ MODE |-> MODE', EDITING |-> EDITING', SCALING |-> SCALING',
           FILLCOLOR |-> FILLCOLOR', root |-> root', grp |-> grp', ly |-> ly',
           fr |-> fr', wr |-> wr', ob |-> ob', undo_stack |-> undo_stack',
           redo_stack |-> redo_stack', Library |-> Library', stage |-> stage',
           svroot |-> svroot', tlroot |-> tlroot', SECURETEMPDIR |-> SECURETEMPDIR',
           dirs |-> dirs', FILE |-> FILE', archive |-> archive', err |-> err' ]

\* C19: with the selection tool a press at a point that hits several
\* wrappers of the displayed frame selects the one latest in the frame's
\* objs and delivers the press to that wrapper only; a press that hits no
\* wrapper sets the selection to None.
C19_PressSelectsTopmost ==
  [][LET l    == ActiveLayer(S, root)
         f    == CurFrame(S, l)
         objs == fr[f].objs
     IN  (/\ ev' = "down"
          /\ stage = << root >>
          /\ MODE = " "
          /\ ly[l].level
          /\ SelErr(S, l) = "none"
          /\ f > 0) =>
           \A p \in SelectPts :
              After = GroupMouseDown(S, root, p[1], p[2]) =>
                 LET hits == { i \in 1..Len(objs) : WrHitTest(S, objs[i], p[1], p[2]) }
                     w    == objs[SetMax(hits)]
                 IN  IF hits = {}
                     THEN Sel(After, l) = 0
                     ELSE /\ Sel(After, l) = w
                          /\ \A v \in 1..Len(wr) : v # w => wr'[v] = wr[v]
                          /\ ob[wr[w].obj].type # "Group" =>
                                /\ wr'[w].inited
                                /\ wr'[w].initx = p[1] - wr[w].x
                                /\ wr'[w].inity = p[2] - wr[w].y]_vars


\* C20: after any sequence of selection clicks, delete or backspace on the
\* selected object, convert to symbol, paste, undo and redo (no rubber band
\* has made a TemporaryGroup), the selection of every layer is None or a
\* wrapper that is an element of the objs of the layer's displayed frame.
C20_SelectionInFrame ==
  (\A o \in 1..Len(ob) : ob[o].type # "TemporaryGroup") =>
     \A l \in Range(grp[root].layers) :
        (SelErr(S, l) = "none" /\ CurFrame(S, l) > 0) =>
           \/ Sel(S, l) = 0
           \/ Sel(S, l) \in Range(fr[CurFrame(S, l)].objs)


\* C21: after new_file or an open_file that loaded a document there is a
\* single document root: root of lightningbeam, svlgui.root,
\* MainWindow.timelinebox.root and the group held by the stage are the same
\* Group, and none of them is the root from before the call.
C21_SingleRoot ==
  [][(ev' \in {"new", "open"} /\ err' = "none") =>
       /\ svroot' = root'
       /\ tlroot' = root'
       /\ stage' = << root' >>
       /\ root \notin {root', svroot', tlroot'} \cup Range(stage')]_vars


\* a release on the stage that Group._onMouseUp hands to onMouseUpObj: the
\* selection tool or the scale tool, and a Shape selected
UpToObj ==
  LET l == ActiveLayer(S, root)
  IN  /\ ev' = "up"
      /\ stage = << root >>
      /\ ly[l].level
      /\ MODE \in {" ", "s"}
      /\ SelErr(S, l) = "none"
      /\ Sel(S, l) > 0
      /\ ob[wr[Sel(S, l)].obj].type = "Shape"

\* C22: every release delivered to a selected object finds a record on the
\* undo stack: onMouseUpObj never reads the top of an empty undo stack, also
\* in scale mode after a press that was on no scale handle of the selection.
C22_MouseUpFindsRecord ==
  [][UpToObj => (undo_stack # << >> /\ err' # "IndexError")]_vars


\* C23: enter pressed in a Text inserts a newline at the cursor and commits
\* the pending text edit: whatever the undo stack holds (nothing, a
\* completed edit on top, a maybe of this or of another object on top) the
\* key press completes without error, and afterwards the top of the undo
\* stack is a completed edit.
C23_EnterCommits ==
  [][(KeyDown("enter") /\ KeyTarget(S) # 0) =>
       LET o  == KeyTarget(S)
           t  == ob[o].text
           cp == ob[o].cursorpos
       IN  /\ err' = "none"
           /\ ob'[o].text = SubSeq(t, 1, cp) \o << "\n" >> \o SubSeq(t, cp + 1, Len(t))
           /\ ob'[o].cursorpos = cp + 1
           /\ undo_stack' # << >>
           /\ Last(undo_stack').cls = "edit"]_vars

\* -------------------------------------------------------- simplify_shape
\* misc_funcs.py:173-212. The points of a polyline are the pairs <<x, y>>
\* of its segments (shape[j][1], shape[j][2]).
DistSq(p, q) ==
  (p[1] - q[1]) * (p[1] - q[1]) + (p[2] - q[2]) * (p[2] - q[2])
\* ab + bc < 500/165 for ab = sqrt(A), bc = sqrt(B): the threshold
\* 165 - 500/(ab+bc) is negative and every angle exceeds it
ShortLegs(A, B) ==
  LET r == 10000 - 1089 * (A + B)
  IN  r > 0 /\ 4 * A * B * 1089 * 1089 < r * r
\* ab + bc >= 10: the threshold is at least 115 degrees
LongLegs(A, B) ==
  A >= 100 \/ B >= 100 \/ 4 * A * B >= (100 - A - B) * (100 - A - B)
\* whether the point b between a and c is deleted, misc_funcs.py:177-205.
\* The criterion acosB > 165 - 500/(ab+bc) is floating point (sqrt, acos):
\* it is decided where integer arithmetic decides it, and both outcomes are
\* possible elsewhere.
\*   ab = 0 or bc = 0: ZeroDivisionError gives cosB = -1, acosB = 180, and
\*     the point goes (180 > threshold, or ZeroDivisionError again);
\*   cosB >= 0 (acosB <= 90) under a threshold of at least 115: it stays.
Deletes(a, b, c) ==
  LET A   == DistSq(a, b)
      B   == DistSq(b, c)
      dot == (a[1] - b[1]) * (c[1] - b[1]) + (a[2] - b[2]) * (c[2] - b[2])
  IN  IF A = 0 \/ B = 0 THEN {TRUE}
      ELSE IF ShortLegs(A, B) THEN {TRUE}
      ELSE IF dot >= 0 /\ LongLegs(A, B) THEN {FALSE}
      ELSE BOOLEAN

\* the results of 'for j in reversed(range(len(shape)))' from the index j
\* (counted from 0) downwards: range() is taken once, len(shape) in the
\* guard is the length after the deletions so far
RECURSIVE SimplifyPassShifted(_, _)
SimplifyPassShifted(shape, j) ==
  IF j < 0 THEN {shape}
  ELSE IF j > 0 /\ j < Len(shape) - 1
       THEN UNION { IF d THEN SimplifyPassShifted(RemoveAt(shape, j), j - 1)
                         ELSE SimplifyPassShifted(shape, j - 1) :
                    d \in Deletes(shape[j], shape[j + 1], shape[j + 2]) }
       ELSE SimplifyPassShifted(shape, j - 1)
RECURSIVE SimplifyPass(_, _)
SimplifyPass(shape, j) ==
  IF j < 0 THEN {shape}
  ELSE IF j > 0 /\ j < Len(shape) - 1
       THEN UNION { IF d THEN SimplifyPass(RemoveAt(shape, j + 1), j - 1)
                         ELSE SimplifyPass(shape, j - 1) :
                    d \in Deletes(shape[j], shape[j + 1], shape[j + 2]) }
       ELSE SimplifyPass(shape, j - 1)

\* the lists simplify_shape(shape, mode, iterations) can return; mode
\* "smooth" goes on to catmullRom2bezier and is not among PModes
RECURSIVE simplify_shape(_, _, _)
simplify_shape(shape, mode, iterations) ==
  IF mode = "straight" /\ iterations > 0
  THEN UNION { simplify_shape(s, mode, iterations - 1) :
               s \in SimplifyPass(shape, Len(shape) - 1) }
  ELSE {shape}

\* the last words of the paintbrush options, lightningbeam_windows.py:235
PModes == {"straight", "inked"}
PenPoints == { <<x, y>> : x \in {0, 1, 10}, y \in {0, 10} }
Polylines == UNION { [1..n -> PenPoints] : n \in 1..MaxPoints }

\* cshape.shapedata = simplify_shape(cshape.shapedata, mode, iterations),
\* lightningbeam.py:208, on the shape of the start document
Simplify(mode, iterations) ==
  /\ \E r \in simplify_shape(ob[1].shapedata, mode, iterations) :
       Apply([ S EXCEPT !.ob[1].shapedata = r ])
  /\ ev' = "simplify"
  /\ snap' = [ undos |-> 0, pre |-> S ]
  /\ UNCHANGED << mouse, typed >>

\* simplify_shape alone: any polyline, any mode, any number of iterations
SimplifyNext ==
  \E mode \in PModes : \E n \in 0..MaxIter : Simplify(mode, n)

SimplifyInit ==
  \E sd \in Polylines :
    Start([ InitState EXCEPT !.ob[1].shapedata = sd ], SimplifySteps)

SimplifySpec == SimplifyInit /\ [][SimplifyNext]_vars

\* r is s with some of its elements left out
RECURSIVE IsSubseq(_, _)
IsSubseq(r, s) ==
  IF r = << >> THEN TRUE
  ELSE IF s = << >> THEN FALSE
  ELSE IF Head(r) = Head(s) THEN IsSubseq(Tail(r), Tail(s))
  ELSE IsSubseq(r, Tail(s))

\* C24: in mode 'straight', for any number of iterations and any polyline
\* of at least one point, simplify_shape returns a subsequence of its input
\* that keeps the first and the last point; in a mode other than
\* 'straight' and 'smooth' it returns its input unchanged.
C24_SimplifyKeepsEnds ==
  [][\A mode \in PModes : \A n \in 0..MaxIter :
       Simplify(mode, n) =>
         LET in  == ob[1].shapedata
             out == ob'[1].shapedata
         IN  /\ mode = "straight" =>
                  /\ IsSubseq(out, in)
                  /\ out # << >>
                  /\ Head(out) = Head(in)
                  /\ Last(out) = Last(in)
             /\ mode \notin {"straight", "smooth"} => out = in]_vars
\* a four-point polyline that lost one inner point and kept the other
C24_Witness ==
  /\ ev = "simplify"
  /\ Len(snap.pre.ob[1].shapedata) = 4
  /\ Len(ob[1].shapedata) = 3

\* --------------------------------------------------------------- hitTest
\* the start document with its shape replaced by box(x0, y0, w, h),
\* lightningbeam.py:530-540, added to the frame at (x0, y0) unscaled
BoxDoc(x0, y0, w, h) ==
  [ InitState EXCEPT
      !.ob[1] = NewShape(BoxData(w, h), x0, y0, 1, FALSE),
      !.wr[1] = framewrapper(1, x0, y0, 0, One, One, FALSE, 1, 1) ]
BoxOrigins == {-2, 0, 3}
HitPts == { <<x, y>> : x \in -4..(MaxSide + 5), y \in -4..(MaxSide + 5) }

\* framewrapper.hitTest(px, py) of the one wrapper, svlgui.py:2086-2088;
\* the answer and the point are kept for the claims, the document is not
\* touched
HitTest(p) ==
  /\ Apply(S)
  /\ ev' = "hitTest"
  /\ snap' = [ undos |-> 0, at |-> p, hits |-> WrHitTest(S, 1, p[1], p[2]) ]
  /\ UNCHANGED << mouse, typed >>

\* hitTest alone: any box, any integer point around it
HitNext == \E p \in HitPts : HitTest(p)

HitInit ==
  \E x0 \in BoxOrigins : \E y0 \in BoxOrigins :
    \E w \in 1..MaxSide : \E h \in 1..MaxSide :
      Start(BoxDoc(x0, y0, w, h), HitSteps)

HitSpec == HitInit /\ [][HitNext]_vars

\* the rectangle of the wrapped box: its corner and its sides
BoxX0 == wr[1].x
BoxY0 == wr[1].y
BoxW  == ob[1].shapedata[3][1]
BoxH  == ob[1].shapedata[3][2]
StrictlyInside(p) ==
  /\ BoxX0 < p[1] /\ p[1] < BoxX0 + BoxW
  /\ BoxY0 < p[2] /\ p[2] < BoxY0 + BoxH
OnClosedBox(p) ==
  /\ BoxX0 <= p[1] /\ p[1] <= BoxX0 + BoxW
  /\ BoxY0 <= p[2] /\ p[2] <= BoxY0 + BoxH

\* C25: of an unscaled box(x0, y0, w, h) with w, h > 0 wrapped at (x0, y0),
\* framewrapper.hitTest(px, py) is True for every integer point strictly
\* inside the rectangle and False for every integer point strictly outside
\* the closed rectangle.
C25_BoxHitTest ==
  ev = "hitTest" =>
    /\ StrictlyInside(snap.at) => snap.hits
    /\ ~OnClosedBox(snap.at) => ~snap.hits
\* a point strictly inside a box was tested
C25_Witness ==
  /\ ev = "hitTest"
  /\ StrictlyInside(snap.at)
  /\ snap.hits
  /\ BoxW > 1 /\ BoxH > 1 /\ BoxX0 # 0

====
